---------------------------- MODULE Spec2Model ----------------------------
(***************************************************************************)
(* Speech analyzer (src/speech-analyzer): the lexical tier classifier, the *)
(* vocabulary / learning-phrase / idiom / pattern extractors and the       *)
(* process_person run that feeds them.                                     *)
(*                                                                         *)
(* Text is modelled as Python str values: a string is a tuple of           *)
(* one-character strings, so that lower(), strip(), split() and " ".join() *)
(* are computed rather than assumed.  A list is a sequence; a dict or a    *)
(* Counter is a sequence of entries in insertion order (Python dicts       *)
(* iterate in insertion order); a set of str is a TLA+ set whose iteration *)
(* order is fixed by the per-process hash seed (hash_seed).                *)
(***************************************************************************)
EXTENDS Integers, Sequences, FiniteSets, TLC

VARIABLES
    pc,                 \* position of the process_person run / "harness"
    called,             \* harness: the functions already applied to the input
    lemma,              \* classifier input (a str)
    classified,         \* classifier outputs for lemma
    flat_tokens,        \* process_person: flat token list (extract_vocabulary input)
    all_tokens,         \* process_person: dict doc id -> token list
    all_patterns,       \* process_person: dict doc id -> pattern list
    total_docs,         \* process_person: len(docs_snapshot)
    vocabulary,         \* extract_vocabulary result
    learning_phrases,   \* extract_learning_phrases result
    idiom_phrases,      \* extract_idiom_phrases result
    pattern_phrases,    \* aggregate_patterns result
    hash_seed,          \* str hash randomisation of the running process
    first_run,          \* learning phrases of an earlier run on the same corpus
    ngram_n,            \* harness: the n handed to generate_ngrams
    ngram_out,          \* harness: generate_ngrams result
    docs,               \* store: people/{id}/docs, doc id -> document
    session,            \* store: the analysis session document
    docs_snapshot,      \* process_person: the queued documents read at start
    idx                 \* process_person: loop index over docs_snapshot

vars == << pc, called, lemma, classified, flat_tokens, all_tokens, all_patterns,
           total_docs, vocabulary, learning_phrases, idiom_phrases,
           pattern_phrases, hash_seed, first_run, ngram_n, ngram_out, docs,
           session, docs_snapshot, idx >>

---------------------------------------------------------------------------
(* Python str operations.                                                  *)

Whitespace == {" ", "\t", "\n"}

UpperChars == << "A","B","C","D","E","F","G","H","I","J","K","L","M",
                 "N","O","P","Q","R","S","T","U","V","W","X","Y","Z" >>

LowerChars == << "a","b","c","d","e","f","g","h","i","j","k","l","m",
                 "n","o","p","q","r","s","t","u","v","w","x","y","z" >>

LowerChar(c) ==
    IF \E i \in 1..26 : UpperChars[i] = c
    THEN LowerChars[CHOOSE i \in 1..26 : UpperChars[i] = c]
    ELSE c

\* str.lower()
Lower(s) == [i \in 1..Len(s) |-> LowerChar(s[i])]

RECURSIVE LStrip(_)
LStrip(s) ==
    IF s # <<>> /\ Head(s) \in Whitespace THEN LStrip(Tail(s)) ELSE s

RECURSIVE RStrip(_)
RStrip(s) ==
    IF s # <<>> /\ s[Len(s)] \in Whitespace
    THEN RStrip(SubSeq(s, 1, Len(s) - 1))
    ELSE s

\* str.strip()
Strip(s) == RStrip(LStrip(s))

\* str.split() with no separator: the maximal runs of non-whitespace.
\* cur is the run being read, acc the runs already closed.
RECURSIVE SplitFrom(_, _, _)
SplitFrom(s, cur, acc) ==
    IF s = <<>>
    THEN IF cur = <<>> THEN acc ELSE Append(acc, cur)
    ELSE IF Head(s) \in Whitespace
         THEN SplitFrom(Tail(s), <<>>, IF cur = <<>> THEN acc ELSE Append(acc, cur))
         ELSE SplitFrom(Tail(s), Append(cur, Head(s)), acc)

Split(s) == SplitFrom(s, <<>>, <<>>)

\* " ".join(parts)
RECURSIVE Join(_)
Join(parts) ==
    IF parts = <<>> THEN <<>>
    ELSE IF Len(parts) = 1 THEN parts[1]
    ELSE parts[1] \o <<" ">> \o Join(Tail(parts))

---------------------------------------------------------------------------
(* common_filter.py                                                        *)

COMMON_LEMMAS ==
    { <<"a","b","l","e">>, <<"a","b","o","u","t">>, <<"a","c","c","o","u","n","t">>,
      <<"a","c","t","i","o","n">>, <<"a","c","t","i","v","i","t","y">>,
      <<"a","c","t","u","a","l","l","y">>, <<"a","d","d">>, <<"a","l","l","o","w">>,
      <<"a","l","m","o","s","t">>, <<"a","l","r","e","a","d","y">>, <<"a","l","w","a","y","s">>,
      <<"a","m","o","u","n","t">>, <<"a","p","p","e","a","r">>, <<"a","r","e","a">>,
      <<"a","r","o","u","n","d">>, <<"a","r","t">>, <<"a","s">>, <<"a","s","k">>, <<"a","t">>,
      <<"a","v","a","i","l","a","b","l","e">>, <<"a","w","a","y">>, <<"b","a","c","k">>,
      <<"b","a","d">>, <<"b","a","n","k">>, <<"b","a","s","i","c">>,
      <<"b","a","s","i","c","a","l","l","y">>, <<"b","e","c","o","m","e">>,
      <<"b","e","g","i","n">>, <<"b","e","l","i","e","v","e">>, <<"b","e","s","t">>,
      <<"b","i","g">>, <<"b","i","l","l">>, <<"b","o","a","r","d">>, <<"b","o","d","y">>,
      <<"b","o","o","k">>, <<"b","r","e","a","k">>, <<"b","r","i","n","g">>,
      <<"b","u","i","l","d">>, <<"b","u","y">>, <<"b","y">>, <<"c","a","l","l">>,
      <<"c","a","r">>, <<"c","a","r","e">>, <<"c","a","s","e">>, <<"c","e","n","t","e","r">>,
      <<"c","e","n","t","r","a","l">>, <<"c","e","r","t","a","i","n">>,
      <<"c","e","r","t","a","i","n","l","y">>, <<"c","h","a","n","g","e">>,
      <<"c","h","i","l","d">>, <<"c","l","a","s","s">>, <<"c","l","e","a","r">>,
      <<"c","o","m","e">>, <<"c","o","m","m","o","n">>, <<"c","o","m","m","u","n","i","t","y">>,
      <<"c","o","m","p","a","n","y">>, <<"c","o","n","d","i","t","i","o","n">>,
      <<"c","o","n","s","i","d","e","r">>, <<"c","o","n","t","i","n","u","e">>,
      <<"c","o","u","n","t","r","y">>, <<"c","o","u","p","l","e">>, <<"c","o","u","r","t">>,
      <<"c","r","e","a","t","e">>, <<"c","u","r","r","e","n","t">>, <<"c","u","t">>,
      <<"d","a","y">>, <<"d","e","c","i","d","e">>,
      <<"d","e","v","e","l","o","p","m","e","n","t">>, <<"d","i","e">>,
      <<"d","i","f","f","e","r","e","n","c","e">>, <<"d","i","f","f","e","r","e","n","t">>,
      <<"d","i","r","e","c","t","o","r">>, <<"d","o","o","r">>, <<"d","o","w","n">>,
      <<"e","a","r","l","y">>, <<"e","a","s","y">>, <<"e","c","o","n","o","m","i","c">>,
      <<"e","d","u","c","a","t","i","o","n">>, <<"e","f","f","e","c","t">>,
      <<"e","f","f","e","c","t","i","v","e">>, <<"e","n","d">>,
      <<"e","n","v","i","r","o","n","m","e","n","t","a","l">>,
      <<"e","s","p","e","c","i","a","l","l","y">>, <<"e","x","a","c","t","l","y">>,
      <<"e","x","p","e","c","t">>, <<"e","x","p","e","r","i","e","n","c","e">>, <<"e","y","e">>,
      <<"f","a","c","e">>, <<"f","a","c","t">>, <<"f","a","l","l">>, <<"f","a","m","i","l","y">>,
      <<"f","a","t","h","e","r">>, <<"f","e","e","l">>, <<"f","e","w">>, <<"f","i","n","a","l">>,
      <<"f","i","n","a","n","c","i","a","l">>, <<"f","i","n","d">>, <<"f","i","n","e">>,
      <<"f","i","r","s","t">>, <<"f","o","l","l","o","w">>, <<"f","o","o","d">>, <<"f","o","r">>,
      <<"f","o","r","c","e">>, <<"f","o","r","m">>, <<"f","r","e","e">>, <<"f","r","o","m">>,
      <<"f","u","l","l">>, <<"g","e","n","e","r","a","l">>, <<"g","e","t">>, <<"g","i","r","l">>,
      <<"g","i","v","e">>, <<"g","o">>, <<"g","o","o","d">>,
      <<"g","o","v","e","r","n","m","e","n","t">>, <<"g","r","e","a","t">>,
      <<"g","r","o","u","n","d">>, <<"g","r","o","u","p">>, <<"g","r","o","w">>, <<"g","u","y">>,
      <<"h","a","n","d">>, <<"h","a","p","p","e","n">>, <<"h","a","p","p","y">>,
      <<"h","a","r","d">>, <<"h","e","a","d">>, <<"h","e","a","l","t","h">>, <<"h","e","a","r">>,
      <<"h","e","l","p">>, <<"h","i","g","h">>, <<"h","i","s","t","o","r","y">>,
      <<"h","o","l","d">>, <<"h","o","u","s","e">>, <<"i","d","e","a">>,
      <<"i","m","p","o","r","t","a","n","t">>, <<"i","n">>, <<"i","n","c","l","u","d","e">>,
      <<"i","n","d","u","s","t","r","y">>, <<"i","n","t","e","r","e","s","t">>,
      <<"i","n","t","e","r","n","a","t","i","o","n","a","l">>, <<"i","s","s","u","e">>,
      <<"j","o","b">>, <<"k","e","e","p">>, <<"k","i","d">>, <<"k","i","l","l">>,
      <<"k","i","n","d">>, <<"k","i","t","c","h","e","n">>, <<"k","n","o","w">>,
      <<"l","a","r","g","e">>, <<"l","a","s","t">>, <<"l","a","w">>, <<"l","e","a","d">>,
      <<"l","e","a","r","n">>, <<"l","e","a","v","e">>, <<"l","e","t">>, <<"l","e","v","e","l">>,
      <<"l","i","f","e">>, <<"l","i","k","e","l","y">>, <<"l","i","n","e">>,
      <<"l","i","t","e","r","a","l","l","y">>, <<"l","i","t","t","l","e">>, <<"l","i","v","e">>,
      <<"l","o","c","a","l">>, <<"l","o","n","g">>, <<"l","o","s","e">>, <<"l","o","t">>,
      <<"l","o","v","e">>, <<"m","a","i","n">>, <<"m","a","j","o","r">>, <<"m","a","k","e">>,
      <<"m","a","n">>, <<"m","a","n","a","g","e","m","e","n","t">>, <<"m","a","r","k","e","t">>,
      <<"m","a","y","b","e">>, <<"m","e","a","n">>, <<"m","e","d","i","c","a","l">>,
      <<"m","e","e","t">>, <<"m","e","m","b","e","r">>, <<"m","i","g","h","t">>,
      <<"m","i","n","u","t","e">>, <<"m","o","d","e","l">>, <<"m","o","m","e","n","t">>,
      <<"m","o","n","e","y">>, <<"m","o","r","n","i","n","g">>, <<"m","o","v","e">>,
      <<"m","u","s","i","c">>, <<"m","u","s","t">>, <<"n","a","m","e">>,
      <<"n","a","t","i","o","n","a","l">>, <<"n","a","t","u","r","a","l">>,
      <<"n","e","c","e","s","s","a","r","y">>, <<"n","e","e","d">>, <<"n","e","w">>,
      <<"n","e","x","t">>, <<"n","i","c","e">>, <<"n","i","g","h","t">>,
      <<"n","u","m","b","e","r">>, <<"o","b","v","i","o","u","s","l","y">>, <<"o","f">>,
      <<"o","f","f">>, <<"o","f","f","e","r">>, <<"o","f","f","i","c","e">>,
      <<"o","f","t","e","n">>, <<"o","l","d">>, <<"o","n">>, <<"o","p","e","n">>,
      <<"o","r","d","e","r">>, <<"o","t","h","e","r">>, <<"o","t","h","e","r","s">>,
      <<"o","u","t">>, <<"o","v","e","r">>, <<"o","w","n">>, <<"p","a","r","e","n","t">>,
      <<"p","a","r","t">>, <<"p","a","r","t","i","c","u","l","a","r">>, <<"p","a","r","t","y">>,
      <<"p","a","s","s">>, <<"p","a","y">>, <<"p","e","o","p","l","e">>,
      <<"p","e","r","s","o","n">>, <<"p","e","r","s","o","n","a","l">>,
      <<"p","h","y","s","i","c","a","l">>, <<"p","l","a","c","e">>, <<"p","l","a","y">>,
      <<"p","o","i","n","t">>, <<"p","o","l","i","c","y">>,
      <<"p","o","l","i","t","i","c","a","l">>, <<"p","o","p","u","l","a","r">>,
      <<"p","o","s","i","t","i","v","e">>, <<"p","o","s","s","i","b","l","e">>,
      <<"p","o","w","e","r">>, <<"p","r","e","s","i","d","e","n","t">>,
      <<"p","r","e","t","t","y">>, <<"p","r","i","v","a","t","e">>,
      <<"p","r","o","b","a","b","l","y">>, <<"p","r","o","b","l","e","m">>,
      <<"p","r","o","c","e","s","s">>, <<"p","r","o","g","r","a","m">>,
      <<"p","r","o","j","e","c","t">>, <<"p","u","b","l","i","c">>, <<"p","u","l","l">>,
      <<"p","u","t">>, <<"q","u","e","s","t","i","o","n">>, <<"q","u","i","t","e">>,
      <<"r","a","i","s","e">>, <<"r","a","t","e">>, <<"r","a","t","h","e","r">>,
      <<"r","e","a","c","h">>, <<"r","e","a","d">>, <<"r","e","a","d","y">>, <<"r","e","a","l">>,
      <<"r","e","a","l","l","y">>, <<"r","e","a","s","o","n">>, <<"r","e","c","e","n","t">>,
      <<"r","e","m","a","i","n">>, <<"r","e","m","e","m","b","e","r">>,
      <<"r","e","p","o","r","t">>, <<"r","e","q","u","i","r","e">>,
      <<"r","e","s","e","a","r","c","h">>, <<"r","e","s","t">>, <<"r","e","s","u","l","t">>,
      <<"r","i","g","h","t">>, <<"r","o","l","e">>, <<"r","o","o","m">>, <<"r","u","n">>,
      <<"s","a","m","e">>, <<"s","a","y">>, <<"s","c","h","o","o","l">>, <<"s","e","e">>,
      <<"s","e","e","m">>, <<"s","e","l","l">>, <<"s","e","n","d">>,
      <<"s","e","r","i","o","u","s">>, <<"s","e","r","v","e">>, <<"s","e","r","v","i","c","e">>,
      <<"s","e","t">>, <<"s","h","o","w">>, <<"s","i","d","e">>,
      <<"s","i","g","n","i","f","i","c","a","n","t">>, <<"s","i","m","p","l","e">>,
      <<"s","i","n","g","l","e">>, <<"s","i","t">>, <<"s","m","a","l","l">>,
      <<"s","o","c","i","a","l">>, <<"s","o","c","i","e","t","y">>,
      <<"s","o","m","e","t","i","m","e","s">>, <<"s","o","r","t">>, <<"s","p","e","a","k">>,
      <<"s","p","e","c","i","a","l">>, <<"s","p","e","n","d">>, <<"s","p","o","r","t">>,
      <<"s","t","a","f","f">>, <<"s","t","a","n","d">>, <<"s","t","a","r","t">>,
      <<"s","t","a","t","e">>, <<"s","t","a","y">>, <<"s","t","o","p">>, <<"s","t","o","r","y">>,
      <<"s","t","r","e","e","t">>, <<"s","t","r","o","n","g">>,
      <<"s","u","c","c","e","s","s","f","u","l">>, <<"s","u","g","g","e","s","t">>,
      <<"s","u","p","p","o","r","t">>, <<"s","u","r","e">>, <<"s","y","s","t","e","m">>,
      <<"t","a","b","l","e">>, <<"t","a","k","e">>, <<"t","a","x">>,
      <<"t","e","a","c","h","e","r">>, <<"t","e","a","m">>, <<"t","e","l","l">>,
      <<"t","e","r","m">>, <<"t","h","i","n","g">>, <<"t","h","i","n","k">>,
      <<"t","h","r","o","u","g","h">>, <<"t","i","m","e">>, <<"t","o">>, <<"t","o","t","a","l">>,
      <<"t","r","a","d","i","t","i","o","n","a","l">>, <<"t","r","u","e">>, <<"t","r","y">>,
      <<"t","u","r","n">>, <<"t","y","p","e">>, <<"u","n","d","e","r","s","t","a","n","d">>,
      <<"u","p">>, <<"u","s","e">>, <<"u","s","u","a","l","l","y">>, <<"v","a","l","u","e">>,
      <<"v","o","i","c","e">>, <<"w","a","i","t">>, <<"w","a","l","k">>, <<"w","a","n","t">>,
      <<"w","a","r">>, <<"w","a","t","c","h">>, <<"w","a","t","e","r">>, <<"w","a","y">>,
      <<"w","e","e","k">>, <<"w","h","o","l","e">>, <<"w","i","n">>, <<"w","i","t","h">>,
      <<"w","o","m","a","n">>, <<"w","o","r","k">>, <<"w","o","r","l","d">>,
      <<"w","r","i","t","e">>, <<"w","r","o","n","g">>, <<"y","e","a","r">>,
      <<"y","o","u","n","g">> }

MODERATE_LEMMAS ==
    { <<"a","c","c","e","p","t">>, <<"a","c","c","o","u","n","t">>,
      <<"a","d","d","r","e","s","s">>, <<"a","f","f","e","c","t">>, <<"a","f","f","o","r","d">>,
      <<"a","g","r","e","e">>, <<"a","i","m">>, <<"a","l","l","o","w">>,
      <<"a","n","n","o","u","n","c","e">>, <<"a","n","s","w","e","r">>,
      <<"a","p","o","l","o","g","i","z","e">>, <<"a","p","p","l","y">>,
      <<"a","p","p","r","o","v","e">>, <<"a","r","g","u","e">>, <<"a","r","r","i","v","e">>,
      <<"a","s","s","u","m","e">>, <<"a","t","t","e","n","d">>, <<"a","t","t","r","a","c","t">>,
      <<"a","v","e","r","a","g","e">>, <<"a","v","o","i","d">>, <<"a","w","a","r","d">>,
      <<"b","a","l","a","n","c","e">>, <<"b","a","n","d">>, <<"b","a","s","e">>,
      <<"b","a","s","i","s">>, <<"b","a","t","t","l","e">>, <<"b","e","a","t">>,
      <<"b","e","h","a","v","i","o","r">>, <<"b","e","l","i","e","f">>,
      <<"b","e","n","e","f","i","t">>, <<"b","i","r","t","h">>, <<"b","i","t">>,
      <<"b","l","o","c","k">>, <<"b","o","r","d","e","r">>, <<"b","r","a","i","n">>,
      <<"b","r","a","n","c","h">>, <<"b","u","d","g","e","t">>, <<"b","u","r","n">>,
      <<"b","u","s">>, <<"c","a","b","i","n","e","t">>, <<"c","a","m","p">>,
      <<"c","a","m","p","a","i","g","n">>, <<"c","a","p","i","t","a","l">>,
      <<"c","a","p","t","u","r","e">>, <<"c","e","l","l">>, <<"c","h","a","i","n">>,
      <<"c","h","a","l","l","e","n","g","e">>, <<"c","h","a","n","n","e","l">>,
      <<"c","h","a","p","t","e","r">>, <<"c","h","a","r","g","e">>, <<"c","h","o","i","c","e">>,
      <<"c","l","a","i","m">>, <<"c","l","i","e","n","t">>, <<"c","l","o","s","e">>,
      <<"c","l","u","b">>, <<"c","o","l","u","m","n">>, <<"c","o","m","m","e","n","t">>,
      <<"c","o","m","m","i","s","s","i","o","n">>, <<"c","o","m","p","a","r","e">>,
      <<"c","o","m","p","e","t","i","t","i","o","n">>, <<"c","o","m","p","l","a","i","n","t">>,
      <<"c","o","m","p","l","e","x">>, <<"c","o","n","c","e","p","t">>,
      <<"c","o","n","c","e","r","n">>, <<"c","o","n","c","l","u","s","i","o","n">>,
      <<"c","o","n","f","i","d","e","n","c","e">>, <<"c","o","n","n","e","c","t","i","o","n">>,
      <<"c","o","n","s","e","q","u","e","n","c","e">>, <<"c","o","n","s","i","d","e","r">>,
      <<"c","o","n","s","t","r","u","c","t","i","o","n">>, <<"c","o","n","t","a","c","t">>,
      <<"c","o","n","t","a","i","n">>, <<"c","o","n","t","e","x","t">>,
      <<"c","o","n","t","r","a","c","t">>, <<"c","o","n","t","r","a","s","t">>,
      <<"c","o","n","t","r","i","b","u","t","i","o","n">>,
      <<"c","o","n","v","e","r","s","a","t","i","o","n">>, <<"c","o","o","k","i","e">>,
      <<"c","o","p","y">>, <<"c","o","s","t">>, <<"c","o","u","n","t">>,
      <<"c","o","u","n","t","r","y">>, <<"c","o","u","r","s","e">>, <<"c","o","v","e","r">>,
      <<"c","u","l","t","u","r","e">>, <<"c","u","r","v","e">>, <<"d","a","t","a">>,
      <<"d","a","t","e">>, <<"d","e","a","l">>, <<"d","e","b","a","t","e">>,
      <<"d","e","c","i","s","i","o","n">>, <<"d","e","f","i","n","i","t","i","o","n">>,
      <<"d","e","m","a","n","d">>, <<"d","e","p","e","n","d">>,
      <<"d","e","s","c","r","i","b","e">>, <<"d","e","s","i","g","n">>,
      <<"d","e","s","i","r","e">>, <<"d","e","t","a","i","l">>,
      <<"d","e","t","e","r","m","i","n","e">>, <<"d","e","v","e","l","o","p">>,
      <<"d","i","f","f","i","c","u","l","t","y">>, <<"d","i","s","c","u","s","s">>,
      <<"d","i","s","c","u","s","s","i","o","n">>, <<"d","i","s","t","a","n","c","e">>,
      <<"d","i","s","t","r","i","c","t">>, <<"d","o","c","u","m","e","n","t">>,
      <<"d","r","a","w">>, <<"d","r","e","a","m">>, <<"d","r","i","v","e">>, <<"d","u","t","y">>,
      <<"e","a","t">>, <<"e","c","o","n","o","m","y">>, <<"e","d","i","t","o","r">>,
      <<"e","f","f","e","c","t">>, <<"e","f","f","o","r","t">>, <<"e","l","e","m","e","n","t">>,
      <<"e","m","o","t","i","o","n">>, <<"e","m","p","h","a","s","i","s">>,
      <<"e","m","p","l","o","y","e","e">>, <<"e","m","p","l","o","y","e","r">>,
      <<"e","n","c","o","u","r","a","g","e">>, <<"e","n","e","r","g","y">>,
      <<"e","n","g","i","n","e">>, <<"e","n","j","o","y">>, <<"e","n","t","e","r">>,
      <<"e","n","t","r","y">>, <<"e","n","v","i","r","o","n","m","e","n","t">>,
      <<"e","p","i","s","o","d","e">>, <<"e","v","e","n","t">>,
      <<"e","v","i","d","e","n","c","e">>, <<"e","x","a","m","p","l","e">>,
      <<"e","x","c","h","a","n","g","e">>, <<"e","x","e","r","c","i","s","e">>,
      <<"e","x","i","s","t">>, <<"e","x","p","a","n","s","i","o","n">>,
      <<"e","x","p","e","r","i","e","n","c","e">>, <<"e","x","p","e","r","t">>,
      <<"e","x","p","r","e","s","s">>, <<"e","x","p","r","e","s","s","i","o","n">>,
      <<"e","x","t","e","n","t">>, <<"f","a","c","t","o","r">>, <<"f","a","i","l">>,
      <<"f","a","i","l","u","r","e">>, <<"f","e","a","t","u","r","e">>, <<"f","i","e","l","d">>,
      <<"f","i","g","u","r","e">>, <<"f","i","l","l">>, <<"f","i","l","m">>,
      <<"f","i","n","g","e","r">>, <<"f","i","t">>, <<"f","l","i","g","h","t">>,
      <<"f","o","c","u","s">>, <<"f","o","r","c","e">>, <<"f","o","r","g","e","t">>,
      <<"f","o","r","m">>, <<"f","r","a","m","e">>, <<"f","r","e","e","d","o","m">>,
      <<"f","r","i","e","n","d">>, <<"f","r","o","n","t">>, <<"f","u","n","c","t","i","o","n">>,
      <<"f","u","n","d">>, <<"f","u","t","u","r","e">>, <<"g","a","i","n">>, <<"g","a","m","e">>,
      <<"g","a","p">>, <<"g","e","n","e","r","a","t","i","o","n">>, <<"g","l","a","s","s">>,
      <<"g","o","a","l">>, <<"g","o","d">>, <<"g","r","o","w","t","h">>, <<"g","u","e","s","s">>,
      <<"g","u","i","d","e">>, <<"h","a","b","i","t">>, <<"h","a","l","f">>,
      <<"h","a","n","d","l","e">>, <<"h","a","n","g">>, <<"h","o","p","e">>,
      <<"i","d","e","n","t","i","f","y">>, <<"i","m","a","g","i","n","e">>,
      <<"i","m","p","a","c","t">>, <<"i","m","p","o","r","t","a","n","c","e">>,
      <<"i","m","p","r","e","s","s","i","o","n">>, <<"i","m","p","r","o","v","e">>,
      <<"i","m","p","r","o","v","e","m","e","n","t">>, <<"i","n","c","i","d","e","n","t">>,
      <<"i","n","c","o","m","e">>, <<"i","n","c","r","e","a","s","e">>,
      <<"i","n","d","i","c","a","t","e">>, <<"i","n","d","u","s","t","r","y">>,
      <<"i","n","f","l","u","e","n","c","e">>, <<"i","n","f","o","r","m","a","t","i","o","n">>,
      <<"i","n","j","u","r","y">>, <<"i","n","s","t","a","n","c","e">>,
      <<"i","n","s","t","r","u","c","t","i","o","n">>, <<"i","n","s","u","r","a","n","c","e">>,
      <<"i","n","t","e","l","l","i","g","e","n","c","e">>,
      <<"i","n","t","e","n","t","i","o","n">>, <<"i","n","t","e","r","v","i","e","w">>,
      <<"i","n","t","r","o","d","u","c","t","i","o","n">>, <<"i","n","v","o","l","v","e">>,
      <<"i","t","e","m">>, <<"j","o","b">>, <<"j","o","i","n">>, <<"j","u","d","g","e">>,
      <<"k","e","y">>, <<"k","n","o","w","l","e","d","g","e">>, <<"l","a","b">>,
      <<"l","a","c","k">>, <<"l","a","n","d">>, <<"l","a","n","g","u","a","g","e">>,
      <<"l","a","y","e","r">>, <<"l","e","a","d","e","r">>, <<"l","e","n","g","t","h">>,
      <<"l","e","v","e","l">>, <<"l","i","m","i","t">>, <<"l","i","n","k">>, <<"l","i","s","t">>,
      <<"l","o","s","s">>, <<"m","a","c","h","i","n","e">>, <<"m","a","g","a","z","i","n","e">>,
      <<"m","a","j","o","r","i","t","y">>, <<"m","a","n","a","g","e">>,
      <<"m","a","n","n","e","r">>, <<"m","a","p">>, <<"m","a","r","k">>, <<"m","a","s","s">>,
      <<"m","a","t","e","r","i","a","l">>, <<"m","a","t","t","e","r">>,
      <<"m","e","a","n","i","n","g">>, <<"m","e","a","s","u","r","e">>, <<"m","e","d","i","a">>,
      <<"m","e","d","i","u","m">>, <<"m","e","t","h","o","d">>, <<"m","i","d","d","l","e">>,
      <<"m","i","n","d">>, <<"m","i","n","o","r","i","t","y">>, <<"m","i","n","u","t","e">>,
      <<"m","i","x">>, <<"m","o","d","e">>, <<"m","o","d","e","l">>, <<"m","o","m","e","n","t">>,
      <<"m","o","n","t","h">>, <<"m","o","u","t","h">>, <<"m","o","v","e","m","e","n","t">>,
      <<"n","a","t","u","r","e">>, <<"n","e","t","w","o","r","k">>, <<"n","e","w","s">>,
      <<"n","o","i","s","e">>, <<"n","o","t","e">>, <<"n","o","t","i","c","e">>,
      <<"o","b","j","e","c","t">>, <<"o","b","t","a","i","n">>, <<"o","c","c","u","r">>,
      <<"o","p","p","o","r","t","u","n","i","t","y">>, <<"o","p","t","i","o","n">>,
      <<"o","r","d","e","r">>, <<"o","r","g","a","n","i","z","a","t","i","o","n">>,
      <<"o","u","t","p","u","t">>, <<"o","w","n">>, <<"o","w","n","e","r">>, <<"p","a","g","e">>,
      <<"p","a","i","n">>, <<"p","a","i","n","t","i","n","g">>, <<"p","a","i","r">>,
      <<"p","a","n","e","l">>, <<"p","a","p","e","r">>, <<"p","a","r","e","n","t">>,
      <<"p","a","r","t">>, <<"p","a","r","t","i","c","i","p","a","n","t">>,
      <<"p","a","r","t","n","e","r">>, <<"p","a","t","h">>, <<"p","a","t","i","e","n","t">>,
      <<"p","a","t","t","e","r","n">>, <<"p","a","y","m","e","n","t">>, <<"p","e","a","c","e">>,
      <<"p","e","r","f","o","r","m">>, <<"p","e","r","i","o","d">>, <<"p","i","c","k">>,
      <<"p","i","e","c","e">>, <<"p","l","a","n">>, <<"p","l","a","n","e">>,
      <<"p","l","a","n","t">>, <<"p","l","a","t","e">>, <<"p","l","a","y","e","r">>,
      <<"p","l","e","a","s","u","r","e">>, <<"p","o","i","n","t">>, <<"p","o","l","i","c","y">>,
      <<"p","o","s","i","t","i","o","n">>, <<"p","r","a","c","t","i","c","e">>,
      <<"p","r","e","p","a","r","e">>, <<"p","r","e","s","e","n","t">>,
      <<"p","r","e","s","s","u","r","e">>, <<"p","r","e","v","e","n","t">>,
      <<"p","r","i","c","e">>, <<"p","r","i","o","r","i","t","y">>, <<"p","r","i","z","e">>,
      <<"p","r","o","b","l","e","m">>, <<"p","r","o","c","e","d","u","r","e">>,
      <<"p","r","o","c","e","s","s">>, <<"p","r","o","d","u","c","e">>,
      <<"p","r","o","d","u","c","t">>, <<"p","r","o","f","i","t">>,
      <<"p","r","o","g","r","a","m">>, <<"p","r","o","g","r","e","s","s">>,
      <<"p","r","o","j","e","c","t">>, <<"p","r","o","m","i","s","e">>, <<"p","r","o","o","f">>,
      <<"p","r","o","p","e","r","t","y">>, <<"p","r","o","p","o","s","a","l">>,
      <<"p","r","o","t","e","c","t","i","o","n">>, <<"p","r","o","v","e">>,
      <<"p","r","o","v","i","d","e">>, <<"p","u","b","l","i","s","h">>, <<"p","u","l","l">>,
      <<"p","u","r","p","o","s","e">>, <<"p","u","s","h">>, <<"q","u","a","l","i","t","y">>,
      <<"q","u","a","n","t","i","t","y">>, <<"q","u","a","r","t","e","r">>,
      <<"q","u","e","s","t","i","o","n">>, <<"r","a","i","s","e">>, <<"r","a","n","g","e">>,
      <<"r","a","t","e">>, <<"r","a","t","i","o">>, <<"r","e","a","l","i","z","e">>,
      <<"r","e","a","s","o","n">>, <<"r","e","c","e","i","v","e">>,
      <<"r","e","c","o","g","n","i","z","e">>, <<"r","e","c","o","r","d">>,
      <<"r","e","d","u","c","e">>, <<"r","e","f","e","r">>, <<"r","e","f","l","e","c","t">>,
      <<"r","e","f","u","s","e">>, <<"r","e","g","a","r","d">>, <<"r","e","g","i","o","n">>,
      <<"r","e","l","a","t","e">>, <<"r","e","l","a","t","i","o","n">>,
      <<"r","e","l","a","t","i","o","n","s","h","i","p">>, <<"r","e","l","e","a","s","e">>,
      <<"r","e","m","a","i","n">>, <<"r","e","m","o","v","e">>, <<"r","e","p","l","a","c","e">>,
      <<"r","e","p","l","y">>, <<"r","e","p","o","r","t">>,
      <<"r","e","p","r","e","s","e","n","t">>, <<"r","e","q","u","e","s","t">>,
      <<"r","e","q","u","i","r","e">>, <<"r","e","s","p","o","n","d">>,
      <<"r","e","s","p","o","n","s","e">>,
      <<"r","e","s","p","o","n","s","i","b","i","l","i","t","y">>, <<"r","e","s","u","l","t">>,
      <<"r","e","t","u","r","n">>, <<"r","e","v","e","a","l">>, <<"r","e","v","i","e","w">>,
      <<"r","i","s","k">>, <<"r","o","l","e">>, <<"r","o","o","m">>, <<"r","u","l","e">>,
      <<"s","a","f","e","t","y">>, <<"s","a","m","p","l","e">>, <<"s","c","a","l","e">>,
      <<"s","c","e","n","e">>, <<"s","c","h","e","d","u","l","e">>, <<"s","c","h","e","m","e">>,
      <<"s","c","o","p","e">>, <<"s","c","o","r","e">>, <<"s","c","r","e","e","n">>,
      <<"s","e","c","t","i","o","n">>, <<"s","e","c","t","o","r">>, <<"s","e","n","s","e">>,
      <<"s","e","r","i","e","s">>, <<"s","e","r","v","i","c","e">>,
      <<"s","e","s","s","i","o","n">>, <<"s","e","t","t","i","n","g">>, <<"s","h","a","r","e">>,
      <<"s","h","i","f","t">>, <<"s","h","o","c","k">>, <<"s","i","d","e">>, <<"s","i","g","n">>,
      <<"s","i","g","n","a","l">>, <<"s","k","i","l","l">>, <<"s","o","l","u","t","i","o","n">>,
      <<"s","o","l","v","e">>, <<"s","o","u","n","d">>, <<"s","o","u","r","c","e">>,
      <<"s","p","a","c","e">>, <<"s","p","e","a","k">>, <<"s","p","r","e","a","d">>,
      <<"s","t","a","g","e">>, <<"s","t","a","n","d">>, <<"s","t","a","n","d","a","r","d">>,
      <<"s","t","a","r","t">>, <<"s","t","a","t","e">>, <<"s","t","a","t","e","m","e","n","t">>,
      <<"s","t","e","p">>, <<"s","t","i","c","k">>, <<"s","t","o","c","k">>,
      <<"s","t","o","r","e">>, <<"s","t","o","r","y">>, <<"s","t","r","a","t","e","g","y">>,
      <<"s","t","r","e","s","s">>, <<"s","t","r","u","c","t","u","r","e">>,
      <<"s","t","u","d","y">>, <<"s","t","y","l","e">>, <<"s","u","b","j","e","c","t">>,
      <<"s","u","c","c","e","e","d">>, <<"s","u","c","c","e","s","s">>,
      <<"s","u","f","f","e","r">>, <<"s","u","p","p","l","y">>, <<"s","u","p","p","o","s","e">>,
      <<"s","u","r","v","e","y">>, <<"s","y","s","t","e","m">>, <<"t","a","r","g","e","t">>,
      <<"t","a","s","k">>, <<"t","a","s","t","e">>, <<"t","e","c","h","n","o","l","o","g","y">>,
      <<"t","e","m","p","e","r","a","t","u","r","e">>, <<"t","e","r","m">>,
      <<"t","h","e","m","e">>, <<"t","h","i","n","g">>, <<"t","h","o","u","g","h","t">>,
      <<"t","i","p">>, <<"t","i","t","l","e">>, <<"t","o","o","l">>, <<"t","o","p","i","c">>,
      <<"t","o","w","n">>, <<"t","r","a","d","e">>, <<"t","r","a","d","i","t","i","o","n">>,
      <<"t","r","a","i","n">>, <<"t","r","a","n","s","f","e","r">>,
      <<"t","r","a","n","s","i","t","i","o","n">>, <<"t","r","e","a","t">>,
      <<"t","r","u","s","t">>, <<"t","r","u","t","h">>, <<"t","u","r","n">>, <<"t","y","p","e">>,
      <<"u","n","i","t">>, <<"u","s","e","r">>, <<"v","a","l","u","e">>,
      <<"v","e","r","s","i","o","n">>, <<"v","i","d","e","o">>, <<"v","i","e","w">>,
      <<"v","i","l","l","a","g","e">>, <<"v","i","s","i","t">>, <<"v","o","i","c","e">>,
      <<"v","o","t","e">>, <<"w","a","r">>, <<"w","a","y">>, <<"w","e","i","g","h","t">>,
      <<"w","h","o","l","e">>, <<"w","i","f","e">>, <<"w","i","n","d">>, <<"w","i","n","g">>,
      <<"w","i","n","n","e","r">>, <<"w","i","s","h">>, <<"w","i","t","n","e","s","s">>,
      <<"w","o","r","k","e","r">>, <<"w","o","r","k","s">>, <<"w","r","i","t","e","r">>,
      <<"y","e","a","r">> }

\* is_common_lemma(lemma)
is_common_lemma(s) ==
    IF s = <<>> THEN TRUE
    ELSE Strip(Lower(s)) \in COMMON_LEMMAS

\* phrase_has_distinctive_word(phrase)
phrase_has_distinctive_word(phrase) ==
    IF phrase = <<>> \/ Strip(phrase) = <<>> THEN FALSE
    ELSE LET words == Split(phrase)
         IN  \E i \in 1..Len(words) : Lower(Strip(words[i])) \notin COMMON_LEMMAS

\* Mutant of head_lemma_is_common: the head is looked up in the moderate set.
head_lemma_is_common_moderate_set(pattern) ==
    IF pattern = <<>> \/ Strip(pattern) = <<>> THEN TRUE
    ELSE Lower(Split(Strip(pattern))[1]) \in MODERATE_LEMMAS

\* head_lemma_is_common(pattern)
head_lemma_is_common(pattern) ==
    IF pattern = <<>> \/ Strip(pattern) = <<>> THEN TRUE
    ELSE Lower(Split(Strip(pattern))[1]) \in COMMON_LEMMAS

\* Mutant of rarity_tier: the moderate set is consulted before the common set.
rarity_tier_moderate_first(s) ==
    IF s = <<>> THEN 0
    ELSE LET w == Strip(Lower(s))
         IN  IF w \in MODERATE_LEMMAS THEN 1
             ELSE IF w \in COMMON_LEMMAS THEN 0
             ELSE 2

\* rarity_tier(lemma)
rarity_tier(s) ==
    IF s = <<>> THEN 0
    ELSE LET w == Strip(Lower(s))
         IN  IF w \in COMMON_LEMMAS THEN 0
             ELSE IF w \in MODERATE_LEMMAS THEN 1
             ELSE 2

---------------------------------------------------------------------------
(* Model bounds and input alphabets.                                       *)

\* Longest lemma handed to the classifier.
MaxLemmaLen == 3

\* Characters of classifier inputs: they spell go, on, own (common; own is
\* also moderate), god (moderate) and, one longer, good and down (common).
ClassifyChars == {"g", "o", "d", "w", "n", "G", " "}

RECURSIVE StringsUpTo(_, _)
StringsUpTo(chars, n) ==
    IF n = 0 THEN {<<>>}
    ELSE LET shorter == StringsUpTo(chars, n - 1)
         IN  shorter \cup {Append(s, c) : s \in {t \in shorter : Len(t) = n - 1}, c \in chars}

\* The session document before anything is written to it.  percent is kept in
\* tenths; error tells whether progress.error is set.
NoSession ==
    [exists |-> FALSE, status |-> "none",
     progress |-> [processedDocs |-> 0, totalDocs |-> 0, percent |-> 0,
                   status |-> "none", error |-> FALSE],
     has_results |-> FALSE,
     vocabulary |-> <<>>, learningPhrases |-> <<>>, signaturePhrases |-> <<>>,
     patternPhrases |-> <<>>,
     corpusStats |-> [docCount |-> 0, tokenCount |-> 0]]

\* The variables a harness leaves at rest.
IdleCorpus ==
    /\ flat_tokens = <<>>
    /\ all_tokens = <<>>
    /\ all_patterns = <<>>
    /\ total_docs = 0

IdleResults ==
    /\ vocabulary = <<>>
    /\ learning_phrases = <<>>
    /\ idiom_phrases = <<>>
    /\ pattern_phrases = <<>>
    /\ first_run = <<>>
    /\ ngram_n = 0
    /\ ngram_out = <<>>

IdleStore ==
    /\ docs = <<>>
    /\ session = NoSession
    /\ docs_snapshot = <<>>
    /\ idx = 0

NotClassified == [common |-> FALSE, tier |-> -1, distinctive |-> FALSE,
                  head_common |-> FALSE]

---------------------------------------------------------------------------
(* Classifier harness: a lemma, and the four classifier functions applied  *)
(* to it.                                                                  *)

InitClassify ==
    /\ pc = "harness"
    /\ called = {}
    /\ lemma \in StringsUpTo(ClassifyChars, MaxLemmaLen)
    /\ classified = NotClassified
    /\ hash_seed = 0
    /\ IdleCorpus /\ IdleResults /\ IdleStore

CallIsCommonLemma ==
    /\ pc = "harness" /\ "is_common_lemma" \notin called
    /\ called' = called \cup {"is_common_lemma"}
    /\ classified' = [classified EXCEPT !.common = is_common_lemma(lemma)]
    /\ UNCHANGED << pc, lemma, flat_tokens, all_tokens, all_patterns, total_docs,
                    vocabulary, learning_phrases, idiom_phrases, pattern_phrases,
                    hash_seed, first_run, ngram_n, ngram_out, docs, session,
                    docs_snapshot, idx >>

CallRarityTier ==
    /\ pc = "harness" /\ "rarity_tier" \notin called
    /\ called' = called \cup {"rarity_tier"}
    /\ classified' = [classified EXCEPT !.tier = rarity_tier(lemma)]
    /\ UNCHANGED << pc, lemma, flat_tokens, all_tokens, all_patterns, total_docs,
                    vocabulary, learning_phrases, idiom_phrases, pattern_phrases,
                    hash_seed, first_run, ngram_n, ngram_out, docs, session,
                    docs_snapshot, idx >>

CallPhraseHasDistinctiveWord ==
    /\ pc = "harness" /\ "phrase_has_distinctive_word" \notin called
    /\ called' = called \cup {"phrase_has_distinctive_word"}
    /\ classified' = [classified EXCEPT !.distinctive = phrase_has_distinctive_word(lemma)]
    /\ UNCHANGED << pc, lemma, flat_tokens, all_tokens, all_patterns, total_docs,
                    vocabulary, learning_phrases, idiom_phrases, pattern_phrases,
                    hash_seed, first_run, ngram_n, ngram_out, docs, session,
                    docs_snapshot, idx >>

CallHeadLemmaIsCommon ==
    /\ pc = "harness" /\ "head_lemma_is_common" \notin called
    /\ called' = called \cup {"head_lemma_is_common"}
    /\ classified' = [classified EXCEPT !.head_common = head_lemma_is_common(lemma)]
    /\ UNCHANGED << pc, lemma, flat_tokens, all_tokens, all_patterns, total_docs,
                    vocabulary, learning_phrases, idiom_phrases, pattern_phrases,
                    hash_seed, first_run, ngram_n, ngram_out, docs, session,
                    docs_snapshot, idx >>

NextClassify ==
    \/ CallIsCommonLemma
    \/ CallRarityTier
    \/ CallPhraseHasDistinctiveWord
    \/ CallHeadLemmaIsCommon

SpecClassify == InitClassify /\ [][NextClassify]_vars

---------------------------------------------------------------------------
(* Claims about the classifier.                                            *)

\* The lemma without its surrounding whitespace, in lower case.
Core(s) ==
    LET inner == {k \in 1..Len(s) : s[k] \notin Whitespace}
    IN  IF inner = {} THEN <<>>
        ELSE LET lo == CHOOSE k \in inner : \A m \in inner : k <= m
                 hi == CHOOSE k \in inner : \A m \in inner : k >= m
             IN  [k \in 1..(hi - lo + 1) |-> LowerChar(s[lo + k - 1])]

\* s spells a common (moderate) word up to letter case and surrounding whitespace.
SpellsCommon(s) == Core(s) \in COMMON_LEMMAS

SpellsModerate(s) == Core(s) \in MODERATE_LEMMAS

IsBlank(s) == \A k \in 1..Len(s) : s[k] \in Whitespace

\* C6 as stated: rarity_tier is 0 on the common set, 1 on the moderate set
\* minus the common set, and 2 on every non-empty lemma in neither set.
C6_AsStated ==
    "rarity_tier" \in called =>
        /\ lemma \in COMMON_LEMMAS => classified.tier = 0
        /\ lemma \in MODERATE_LEMMAS \ COMMON_LEMMAS => classified.tier = 1
        /\ (lemma # <<>> /\ lemma \notin COMMON_LEMMAS \cup MODERATE_LEMMAS)
               => classified.tier = 2

\* C6 amended: membership is decided on the lemma lower-cased and stripped of
\* surrounding whitespace: tier 0 when that form is common, 1 when it is
\* moderate and not common, 2 when the lemma is non-empty and that form is in
\* neither set.
C6_RarityTierByNormalisedLemma ==
    "rarity_tier" \in called =>
        /\ SpellsCommon(lemma) => classified.tier = 0
        /\ (SpellsModerate(lemma) /\ ~SpellsCommon(lemma)) => classified.tier = 1
        /\ (lemma # <<>> /\ ~SpellsCommon(lemma) /\ ~SpellsModerate(lemma))
               => classified.tier = 2

\* C6 witness: a lemma that is no member of the common set as written, spells
\* a common word and was classified 0.
C6_Witness ==
    /\ "rarity_tier" \in called
    /\ lemma \notin COMMON_LEMMAS
    /\ SpellsCommon(lemma)
    /\ classified.tier = 0

---------------------------------------------------------------------------
(* Python containers.                                                      *)

\* Iteration order of a set of str: fixed by the members' hashes, which the
\* process's hash seed randomises.  The seed is read as a number in the
\* factorial number system, so the seeds 0 .. n!-1 give every order of an
\* n-element set.
RECURSIVE CanonicalOrder(_)
CanonicalOrder(S) ==
    IF S = {} THEN <<>>
    ELSE LET x == CHOOSE y \in S : TRUE
         IN  <<x>> \o CanonicalOrder(S \ {x})

RECURSIVE SetIterFrom(_, _)
SetIterFrom(S, seed) ==
    IF S = {} THEN <<>>
    ELSE LET n == Cardinality(S)
             x == CanonicalOrder(S)[(seed % n) + 1]
         IN  <<x>> \o SetIterFrom(S \ {x}, seed \div n)

\* list(s) for a set s
SetIter(S) == SetIterFrom(S, hash_seed)

\* lst[:n]
Take(lst, n) == SubSeq(lst, 1, IF Len(lst) < n THEN Len(lst) ELSE n)

\* list.sort / sorted: a stable sort; before[i][j] is "the key of lst[i]
\* sorts strictly before the key of lst[j]".
StableSort(lst, before) ==
    LET n == Len(lst)
        Rank(i) == Cardinality({j \in 1..n : before[j][i]})
                   + Cardinality({j \in 1..(i - 1) : ~before[i][j] /\ ~before[j][i]})
                   + 1
    IN  [k \in 1..n |-> lst[CHOOSE i \in 1..n : Rank(i) = k]]

\* round(num / den, 0) for num >= 0, den > 0, halves to the even neighbour.
RoundDiv(num, den) ==
    LET q == num \div den
        r == num % den
    IN  IF 2 * r < den THEN q
        ELSE IF 2 * r > den THEN q + 1
        ELSE IF q % 2 = 0 THEN q ELSE q + 1

\* The index of the entry for key in a dict kept as a sequence of entries
\* [t |-> key, ...] in insertion order; 0 when the key is absent.
IndexOfKey(entries, key) ==
    IF \E i \in 1..Len(entries) : entries[i].t = key
    THEN CHOOSE i \in 1..Len(entries) : entries[i].t = key
    ELSE 0

---------------------------------------------------------------------------
(* nlp_processor.py                                                        *)

CONTENT_POS == {"NOUN", "VERB", "ADJ", "ADV"}

IGNORE_POS == {"PUNCT", "SPACE", "DET", "AUX"}

---------------------------------------------------------------------------
(* extractors.py: extract_vocabulary                                       *)

\* Scaled down: the source keeps 1000 vocabulary entries (vocab[:1000]).
VocabCap == 2

\* The source keeps 30 surface forms per entry.
MaxSurfaces == 30

\* Line 20 and 22: the token is counted.
VocabTokenCounts(token) ==
    /\ token.pos \in CONTENT_POS
    /\ ~token.is_stop
    /\ ~is_common_lemma(token.lemma)

\* Lines 19-26: counter / surfaces_by_lemma, as entries [t, c, surfaces] in the
\* order the lemmas were first counted.
RECURSIVE VocabCount(_, _)
VocabCount(tokens, counter) ==
    IF tokens = <<>> THEN counter
    ELSE LET token == Head(tokens)
             i == IndexOfKey(counter, token.lemma)
         IN  IF ~VocabTokenCounts(token) THEN VocabCount(Tail(tokens), counter)
             ELSE IF i = 0
             THEN VocabCount(Tail(tokens),
                      Append(counter, [t |-> token.lemma, c |-> 1,
                                       surfaces |-> {token.text}]))
             ELSE VocabCount(Tail(tokens),
                      [counter EXCEPT ![i].c = @ + 1,
                                      ![i].surfaces = @ \cup {token.text}])

\* Lines 18-26: total_tokens.  The "continue" of line 23 skips line 26, so a
\* token with a content part-of-speech, no stop flag and a common lemma is
\* not part of the total.
VocabTokenSkipped(token) ==
    /\ token.pos \in CONTENT_POS
    /\ ~token.is_stop
    /\ is_common_lemma(token.lemma)

VocabTotal(tokens) ==
    Cardinality({i \in 1..Len(tokens) : ~VocabTokenSkipped(tokens[i])})

\* Line 35: round((count / total_tokens) * 10000, 2), in hundredths.
VocabRate(count, total_tokens) == RoundDiv(count * 1000000, total_tokens)

\* Mutant of VocabBefore: the count is compared before the rarity tier.
VocabBefore_count_first(a, b) == a.c > b.c \/ (a.c = b.c /\ a.r > b.r)

\* Line 41: the sort key (-r, -c).
VocabBefore(a, b) == a.r > b.r \/ (a.r = b.r /\ a.c > b.c)

\* Lines 29-40.  An item without the optional key "surfaces" has surfaces = <<>>.
VocabOrder(lst) ==
    [i \in 1..Len(lst) |-> [j \in 1..Len(lst) |-> VocabBefore(lst[i], lst[j])]]

VocabItems(counter, total_tokens) ==
    [i \in 1..Len(counter) |->
        [t |-> counter[i].t,
         c |-> counter[i].c,
         p10k |-> VocabRate(counter[i].c, total_tokens),
         r |-> rarity_tier(counter[i].t),
         surfaces |-> Take(SetIter(counter[i].surfaces), MaxSurfaces)]]

\* Mutant of extract_vocabulary: the sorted list is returned whole.
extract_vocabulary_uncapped(tokens) ==
    LET total_tokens == VocabTotal(tokens)
    IN  IF total_tokens = 0 THEN <<>>
        ELSE LET vocab == VocabItems(VocabCount(tokens, <<>>), total_tokens)
             IN  StableSort(vocab, VocabOrder(vocab))

extract_vocabulary(tokens) ==
    LET total_tokens == VocabTotal(tokens)
    IN  IF total_tokens = 0 THEN <<>>
        ELSE LET vocab == VocabItems(VocabCount(tokens, <<>>), total_tokens)
             IN  Take(StableSort(vocab, VocabOrder(vocab)), VocabCap)

---------------------------------------------------------------------------
(* Tokens used as extractor inputs: the dicts process_document builds      *)
(* (text, lemma, norm, pos, is_stop; "dep" is read by no extractor).       *)

Token(text, lem, norm, pos, is_stop) ==
    [text |-> text, lemma |-> lem, norm |-> norm, pos |-> pos, is_stop |-> is_stop]

W_folks  == <<"f","o","l","k","s">>
W_reckon == <<"r","e","c","k","o","n">>
W_god    == <<"g","o","d">>
W_go     == <<"g","o">>
W_on     == <<"o","n">>
W_hereby == <<"h","e","r","e","b","y">>
W_ouch   == <<"o","u","c","h">>
W_blank  == <<" ">>
W_empty  == <<>>

T_folks  == Token(W_folks, W_folks, W_folks, "NOUN", FALSE)    \* rare
T_reckon == Token(W_reckon, W_reckon, W_reckon, "VERB", FALSE) \* rare
T_god    == Token(W_god, W_god, W_god, "NOUN", FALSE)          \* moderate
T_go     == Token(W_go, W_go, W_go, "VERB", FALSE)             \* common
T_on     == Token(W_on, W_on, W_on, "ADP", TRUE)               \* stop-word, no content
T_hereby == Token(W_hereby, W_hereby, W_hereby, "ADV", TRUE)   \* rare stop-word
T_ouch   == Token(W_ouch, W_ouch, W_ouch, "INTJ", FALSE)       \* rare, no content
T_Folks  == Token(<<"F","o","l","k","s">>, W_folks, W_folks, "NOUN", FALSE)
T_blank  == Token(W_blank, W_blank, W_blank, "NOUN", FALSE)    \* blank lemma
T_empty  == Token(W_empty, W_empty, W_empty, "NOUN", FALSE)    \* empty lemma

---------------------------------------------------------------------------
(* Vocabulary harness: a flat token list, and extract_vocabulary applied.  *)

\* Longest flat token list handed to extract_vocabulary.
MaxVocabTokens == 4

VocabTokens == {T_folks, T_reckon, T_god, T_go, T_hereby, T_ouch, T_blank, T_empty}

InitVocab ==
    /\ pc = "harness"
    /\ called = {}
    /\ lemma = <<>>
    /\ classified = NotClassified
    /\ flat_tokens \in StringsUpTo(VocabTokens, MaxVocabTokens)
    /\ all_tokens = <<>>
    /\ all_patterns = <<>>
    /\ total_docs = 0
    /\ hash_seed = 0
    /\ IdleResults /\ IdleStore

CallExtractVocabulary ==
    /\ pc = "harness" /\ "extract_vocabulary" \notin called
    /\ called' = called \cup {"extract_vocabulary"}
    /\ vocabulary' = extract_vocabulary(flat_tokens)
    /\ UNCHANGED << pc, lemma, classified, flat_tokens, all_tokens, all_patterns,
                    total_docs, learning_phrases, idiom_phrases, pattern_phrases,
                    hash_seed, first_run, ngram_n, ngram_out, docs, session,
                    docs_snapshot, idx >>

NextVocab == CallExtractVocabulary

SpecVocab == InitVocab /\ [][NextVocab]_vars

---------------------------------------------------------------------------
(* Claims about extract_vocabulary.                                        *)

\* The lemma is classified common: it is empty or spells a common word.
LemmaCommon(s) == s = <<>> \/ SpellsCommon(s)

\* The rarity tier read off the two sets.
LemmaTier(s) ==
    IF LemmaCommon(s) THEN 0 ELSE IF SpellsModerate(s) THEN 1 ELSE 2

\* The occurrences of lemma l in tokens that extract_vocabulary is to count.
QualifyingOccurrences(tokens, l) ==
    {i \in 1..Len(tokens) :
        /\ tokens[i].lemma = l
        /\ tokens[i].pos \in {"NOUN", "VERB", "ADJ", "ADV"}
        /\ ~tokens[i].is_stop
        /\ ~LemmaCommon(l)}

QualifyingLemmas(tokens) ==
    {tokens[i].lemma : i \in {j \in 1..Len(tokens) :
                                 QualifyingOccurrences(tokens, tokens[j].lemma) # {}}}

\* (r1, c1) is a strictly higher sort key than (r2, c2).
KeyHigher(r1, c1, r2, c2) == r1 > r2 \/ (r1 = r2 /\ c1 > c2)

EmittedLemmas(out) == {out[i].t : i \in 1..Len(out)}

\* C5: the vocabulary is sorted by rarity tier descending, then count
\* descending; with more qualifying lemmas than the cap it has exactly cap
\* entries and no omitted lemma has a higher (tier, count) key than an emitted one.
C5_VocabularySortedAndCapped ==
    "extract_vocabulary" \in called =>
        LET Q == QualifyingLemmas(flat_tokens)
            Cnt(l) == Cardinality(QualifyingOccurrences(flat_tokens, l))
        IN  /\ \A i, j \in 1..Len(vocabulary) :
                   i < j => ~KeyHigher(vocabulary[j].r, vocabulary[j].c,
                                       vocabulary[i].r, vocabulary[i].c)
            /\ \A i \in 1..Len(vocabulary) :
                   /\ vocabulary[i].t \in Q
                   /\ vocabulary[i].r = LemmaTier(vocabulary[i].t)
                   /\ vocabulary[i].c = Cnt(vocabulary[i].t)
            /\ \A i, j \in 1..Len(vocabulary) : i # j => vocabulary[i].t # vocabulary[j].t
            /\ Cardinality(Q) > VocabCap =>
                   /\ Len(vocabulary) = VocabCap
                   /\ \A l \in Q \ EmittedLemmas(vocabulary) :
                          \A i \in 1..Len(vocabulary) :
                              ~KeyHigher(LemmaTier(l), Cnt(l),
                                         vocabulary[i].r, vocabulary[i].c)

\* C5 witness: more qualifying lemmas than the cap were supplied, the two
\* tiers and two different counts occur among them, and the cap cut the list.
C5_Witness ==
    /\ "extract_vocabulary" \in called
    /\ Cardinality(QualifyingLemmas(flat_tokens)) > VocabCap
    /\ Len(vocabulary) = VocabCap
    /\ vocabulary[1].r = vocabulary[2].r
    /\ vocabulary[1].c > vocabulary[2].c
    /\ \E l \in QualifyingLemmas(flat_tokens) \ EmittedLemmas(vocabulary) :
           LemmaTier(l) < vocabulary[2].r
    /\ \A i \in 1..Len(flat_tokens) : ~IsBlank(flat_tokens[i].lemma)

\* C7 as stated: an empty and a blank lemma classify as common (tier 0,
\* is_common_lemma true), no token with such a lemma yields a vocabulary
\* entry, a blank phrase is not distinctive and a blank pattern has a common head.
C7_AsStated ==
    "extract_vocabulary" \in called =>
        /\ \A i \in 1..Len(flat_tokens) :
               IsBlank(flat_tokens[i].lemma) =>
                   /\ is_common_lemma(flat_tokens[i].lemma)
                   /\ rarity_tier(flat_tokens[i].lemma) = 0
                   /\ flat_tokens[i].lemma \notin EmittedLemmas(vocabulary)
        /\ ~phrase_has_distinctive_word(W_blank)
        /\ ~phrase_has_distinctive_word(W_empty)
        /\ head_lemma_is_common(W_blank)
        /\ head_lemma_is_common(W_empty)

\* C8 as stated: an entry's count is the number of tokens with that lemma that
\* have a content part-of-speech, are no stop-words and whose lemma is not
\* common; its rate is count / (number of all tokens) * 10000 to the nearest
\* hundredth; 7 occurrences in 10,000 tokens give 7.00.
C8_AsStated ==
    "extract_vocabulary" \in called =>
        /\ \A i \in 1..Len(vocabulary) :
               LET e == vocabulary[i]
                   n == Len(flat_tokens)
               IN  /\ e.c = Cardinality(QualifyingOccurrences(flat_tokens, e.t))
                   /\ e.c >= 1
                   /\ 2 * (e.p10k * n - e.c * 1000000) <= n
                   /\ 2 * (e.c * 1000000 - e.p10k * n) <= n
        /\ Len(vocabulary) < VocabCap =>
               EmittedLemmas(vocabulary) = QualifyingLemmas(flat_tokens)
        /\ VocabRate(7, 10000) = 700

---------------------------------------------------------------------------
(* extractors.py: generate_ngrams, _unigram_counts_and_total, _pmi,        *)
(* extract_learning_phrases                                                *)

\* Scaled down: the source keeps 1000 learning phrases (phrases[:1000]).
LearningCap == 2

\* Mutant of WindowKept: a window with a stop-word fraction of exactly 0.6 is
\* dropped too.
WindowKept_at_least(ngram) ==
    LET n == Len(ngram)
        stop_count == Cardinality({k \in 1..n : ngram[k].is_stop})
    IN  /\ ~(stop_count * 5 >= n * 3)
        /\ \E k \in 1..n : ngram[k].pos \in CONTENT_POS

\* Lines 52-57: the window is kept.  stop_count / n > 0.6 is compared in
\* integers: stop_count * 5 > n * 3.
WindowKept(ngram) ==
    LET n == Len(ngram)
        stop_count == Cardinality({k \in 1..n : ngram[k].is_stop})
    IN  /\ ~(stop_count * 5 > n * 3)
        /\ \E k \in 1..n : ngram[k].pos \in CONTENT_POS

\* generate_ngrams(tokens, n, doc_id), from window i (1-based) on.
RECURSIVE NgramsFrom(_, _, _, _)
NgramsFrom(tokens, n, doc_id, i) ==
    IF i + n - 1 > Len(tokens) THEN <<>>
    ELSE LET ngram == SubSeq(tokens, i, i + n - 1)
             rest == NgramsFrom(tokens, n, doc_id, i + 1)
         IN  IF WindowKept(ngram)
             THEN << [phrase |-> Join([k \in 1..n |-> ngram[k].norm]),
                      doc |-> doc_id,
                      surface |-> Join([k \in 1..n |-> ngram[k].text])] >> \o rest
             ELSE rest

generate_ngrams(tokens, n, doc_id) == NgramsFrom(tokens, n, doc_id, 1)

\* The n-grams of one document for n = lo .. hi, in the order of the loops
\* "for n in range(lo, hi + 1): for phrase, doc, surface in ngrams", each
\* tagged with its n.
RECURSIVE DocNgrams(_, _, _, _)
DocNgrams(tokens, doc_id, lo, hi) ==
    IF lo > hi THEN <<>>
    ELSE LET ngrams == generate_ngrams(tokens, lo, doc_id)
         IN  [k \in 1..Len(ngrams) |->
                 [phrase |-> ngrams[k].phrase, doc |-> ngrams[k].doc,
                  surface |-> ngrams[k].surface, n |-> lo]]
             \o DocNgrams(tokens, doc_id, lo + 1, hi)

\* "for doc_id, tokens in all_tokens.items()": the n-grams of the corpus.
RECURSIVE CorpusNgrams(_, _, _)
CorpusNgrams(corpus, lo, hi) ==
    IF corpus = <<>> THEN <<>>
    ELSE DocNgrams(Head(corpus).tokens, Head(corpus).id, lo, hi)
         \o CorpusNgrams(Tail(corpus), lo, hi)

\* Lines 105-117: phrase_count, phrase_docs, phrase_surfaces and phrase_n as
\* entries [t, c, docs, surfaces, n] in the order the phrases were first seen.
RECURSIVE PhraseCount(_, _)
PhraseCount(ngrams, acc) ==
    IF ngrams = <<>> THEN acc
    ELSE LET g == Head(ngrams)
             i == IndexOfKey(acc, g.phrase)
             surf == IF Strip(g.surface) # <<>> THEN {g.surface} ELSE {}
         IN  IF i = 0
             THEN PhraseCount(Tail(ngrams),
                      Append(acc, [t |-> g.phrase, c |-> 1, docs |-> {g.doc},
                                   surfaces |-> surf, n |-> g.n]))
             ELSE PhraseCount(Tail(ngrams),
                      [acc EXCEPT ![i].c = @ + 1,
                                  ![i].docs = @ \cup {g.doc},
                                  ![i].surfaces = @ \cup surf,
                                  ![i].n = g.n])

\* Line 70: (t.get("norm") or t.get("lemma") or "").strip()
UnigramKey(token) ==
    Strip(IF token.norm # <<>> THEN token.norm ELSE token.lemma)

\* _unigram_counts_and_total: the Counter as entries [t, c]; the total is the
\* sum of the counts, since both are incremented together.
RECURSIVE UnigramCount(_, _)
UnigramCount(tokens, acc) ==
    IF tokens = <<>> THEN acc
    ELSE LET norm == UnigramKey(Head(tokens))
             i == IndexOfKey(acc, norm)
         IN  IF norm = <<>> THEN UnigramCount(Tail(tokens), acc)
             ELSE IF i = 0
             THEN UnigramCount(Tail(tokens), Append(acc, [t |-> norm, c |-> 1]))
             ELSE UnigramCount(Tail(tokens), [acc EXCEPT ![i].c = @ + 1])

RECURSIVE CorpusUnigram(_, _)
CorpusUnigram(corpus, acc) ==
    IF corpus = <<>> THEN acc
    ELSE CorpusUnigram(Tail(corpus), UnigramCount(Head(corpus).tokens, acc))

RECURSIVE SumCounts(_)
SumCounts(entries) ==
    IF entries = <<>> THEN 0 ELSE Head(entries).c + SumCounts(Tail(entries))

\* unigram.get(w, 0)
UnigramGet(unigram, w) ==
    LET i == IndexOfKey(unigram, w) IN IF i = 0 THEN 0 ELSE unigram[i].c

\* math.log2(j + 0.01) + log2(100) = log2(100 * j + 1), in millionths, for
\* j = 0 .. 24 (index j + 1).
Log2Micro ==
    << 0, 6658211, 7651052, 8233620, 8647458, 8968667, 9231221, 9453271,
       9645658, 9815383, 9967226, 10104599, 10230020, 10345405, 10452241,
       10551708, 10644758, 10732167, 10814582, 10892543, 10966505, 11036860,
       11103943, 11168045, 11229420 >>

\* math.log(1 + df), in millionths, for df = 0 .. 5 (index df + 1).
LnMicro == << 0, 693147, 1098612, 1386294, 1609438, 1791759 >>

\* round(x, 2) of x = num / 1000000, in hundredths.
RoundCenti(num) ==
    IF num >= 0 THEN RoundDiv(num, 10000) ELSE 0 - RoundDiv(0 - num, 10000)

RECURSIVE SumLog2(_, _)
SumLog2(unigram, words) ==
    IF words = <<>> THEN 0
    ELSE Log2Micro[UnigramGet(unigram, Head(words)) + 1] + SumLog2(unigram, Tail(words))

\* _pmi, in hundredths.  The hundredths of the smoothed factors cancel:
\* (c + 0.01) (T + 0.01)^(n-1) / prod (u_i + 0.01)
\*    = (100 c + 1) (100 T + 1)^(n-1) / prod (100 u_i + 1);
\* the 1e-10 added to the product is below the table's resolution.
Pmi(phrase, phrase_count, unigram, total_tokens, n) ==
    IF total_tokens <= 0 \/ phrase_count <= 0 \/ n < 2 THEN 0
    ELSE LET words == Split(phrase)
         IN  IF Len(words) # n THEN 0
             ELSE RoundCenti(Log2Micro[phrase_count + 1]
                             + (n - 1) * Log2Micro[total_tokens + 1]
                             - SumLog2(unigram, words))

\* Line 131 and 139: round(count * math.log(1 + doc_freq), 2), in hundredths.
Score(count, doc_freq) == RoundCenti(count * LnMicro[doc_freq + 1])

\* Line 121.
MinDocFreq(n_docs) == IF n_docs = 1 THEN 1 ELSE 2

\* Mutant of MinCount: the single-document minimum is used for every corpus.
MinCount_always_relaxed(n_docs) == 2

\* Mutant of MinCount: a phrase must exceed the minimum count.
MinCount_exclusive(n_docs) == IF n_docs = 1 THEN 3 ELSE 6

\* Line 122.
MinCount(n_docs) == IF n_docs = 1 THEN 2 ELSE 5

\* Lines 127-130: the phrase passes the filters.
PhraseQualifies(e, n_docs) ==
    /\ ~(e.c < MinCount(n_docs) \/ Cardinality(e.docs) < MinDocFreq(n_docs))
    /\ phrase_has_distinctive_word(e.t)

\* Lines 124-144.  An item without the optional key "surfaces" has surfaces = <<>>.
RECURSIVE LearningItems(_, _, _, _)
LearningItems(counted, unigram, total_tokens, n_docs) ==
    IF counted = <<>> THEN <<>>
    ELSE LET e == Head(counted)
             rest == LearningItems(Tail(counted), unigram, total_tokens, n_docs)
         IN  IF ~PhraseQualifies(e, n_docs) THEN rest
             ELSE << [t |-> e.t, n |-> e.t, c |-> e.c, df |-> Cardinality(e.docs),
                      s |-> Score(e.c, Cardinality(e.docs)),
                      pmi |-> Pmi(e.t, e.c, unigram, total_tokens, e.n),
                      surfaces |-> Take(SetIter(e.surfaces), MaxSurfaces)] >> \o rest

\* Line 145: sort(key = (pmi, s), reverse = True); a reversed sort keeps the
\* order of equal keys.
LearningBefore(a, b) == a.pmi > b.pmi \/ (a.pmi = b.pmi /\ a.s > b.s)

LearningOrder(lst) ==
    [i \in 1..Len(lst) |-> [j \in 1..Len(lst) |-> LearningBefore(lst[i], lst[j])]]

\* Mutant of extract_learning_phrases: the counted phrases are visited in the
\* iteration order of a set of their keys.
extract_learning_phrases_set_order(corpus, n_docs) ==
    LET counted == PhraseCount(CorpusNgrams(corpus, 2, 5), <<>>)
        keys == SetIter({counted[i].t : i \in 1..Len(counted)})
        visited == [k \in 1..Len(counted) |-> counted[IndexOfKey(counted, keys[k])]]
        unigram == CorpusUnigram(corpus, <<>>)
        phrases == LearningItems(visited, unigram, SumCounts(unigram), n_docs)
    IN  Take(StableSort(phrases, LearningOrder(phrases)), LearningCap)

extract_learning_phrases(corpus, n_docs) ==
    LET counted == PhraseCount(CorpusNgrams(corpus, 2, 5), <<>>)
        unigram == CorpusUnigram(corpus, <<>>)
        phrases == LearningItems(counted, unigram, SumCounts(unigram), n_docs)
    IN  Take(StableSort(phrases, LearningOrder(phrases)), LearningCap)

---------------------------------------------------------------------------
(* Learning-phrase harness: a corpus of one or two documents and the       *)
(* document count handed to extract_learning_phrases.                      *)

\* Most tokens in a corpus handed to extract_learning_phrases.
MaxPhraseTokens == 7

PhraseTokens == {T_folks, T_go}

\* The corpora of one document d1, or of two documents d1 and d2 in
\* insertion order, with at most n tokens over the alphabet toks.
Corpora(toks, n) ==
    LET texts == StringsUpTo(toks, n)
    IN  {<< [id |-> "d1", tokens |-> a] >> : a \in texts}
        \cup UNION {{<< [id |-> "d1", tokens |-> SubSeq(a, 1, k)],
                         [id |-> "d2", tokens |-> SubSeq(a, k + 1, Len(a))] >> :
                          k \in 0..Len(a)} : a \in texts}

InitPhrases ==
    /\ pc = "harness"
    /\ called = {}
    /\ lemma = <<>>
    /\ classified = NotClassified
    /\ flat_tokens = <<>>
    /\ all_tokens \in Corpora(PhraseTokens, MaxPhraseTokens)
    /\ all_patterns = <<>>
    /\ total_docs \in Len(all_tokens)..2
    /\ hash_seed = 0
    /\ IdleResults /\ IdleStore

CallExtractLearningPhrases ==
    /\ pc = "harness" /\ "extract_learning_phrases" \notin called
    /\ called' = called \cup {"extract_learning_phrases"}
    /\ learning_phrases' = extract_learning_phrases(all_tokens, total_docs)
    /\ UNCHANGED << pc, lemma, classified, flat_tokens, all_tokens, all_patterns,
                    total_docs, vocabulary, idiom_phrases, pattern_phrases,
                    hash_seed, first_run, ngram_n, ngram_out, docs, session,
                    docs_snapshot, idx >>

NextPhrases == CallExtractLearningPhrases

SpecPhrases == InitPhrases /\ [][NextPhrases]_vars

\* The same harness over a richer alphabet and shorter documents.
MaxScenarioTokens == 5

ScenarioTokens == {T_folks, T_reckon, T_go}

InitScenario ==
    /\ pc = "harness"
    /\ called = {}
    /\ lemma = <<>>
    /\ classified = NotClassified
    /\ flat_tokens = <<>>
    /\ all_tokens \in Corpora(ScenarioTokens, MaxScenarioTokens)
    /\ all_patterns = <<>>
    /\ total_docs \in Len(all_tokens)..2
    /\ hash_seed = 0
    /\ IdleResults /\ IdleStore

SpecScenario == InitScenario /\ [][NextPhrases]_vars

---------------------------------------------------------------------------
(* Claims about extract_learning_phrases.                                  *)

\* The windows <<document index, n, start>> of the corpus for n = lo .. hi
\* whose stop-word fraction is at most 0.6 and that hold a content token.
KeptWindows(corpus, lo, hi) ==
    UNION {{w \in {d} \X (lo..hi) \X (1..Len(corpus[d].tokens)) :
               LET toks == corpus[d].tokens
                   span == w[3]..(w[3] + w[2] - 1)
               IN  /\ w[3] + w[2] - 1 <= Len(toks)
                   /\ 10 * Cardinality({k \in span : toks[k].is_stop}) <= 6 * w[2]
                   /\ \E k \in span : toks[k].pos \in {"NOUN", "VERB", "ADJ", "ADV"}} :
           d \in 1..Len(corpus)}

WindowNorms(corpus, w) == [k \in 1..w[2] |-> corpus[w[1]].tokens[w[3] + k - 1].norm]

\* The phrases of the corpus as tuples of words, with count and document frequency.
PhraseWords(corpus, lo, hi) ==
    {WindowNorms(corpus, w) : w \in KeptWindows(corpus, lo, hi)}

PhraseWindows(corpus, lo, hi, words) ==
    {w \in KeptWindows(corpus, lo, hi) : WindowNorms(corpus, w) = words}

PhraseOccurrences(corpus, lo, hi, words) ==
    Cardinality(PhraseWindows(corpus, lo, hi, words))

PhraseDocFreq(corpus, lo, hi, words) ==
    Cardinality({w[1] : w \in PhraseWindows(corpus, lo, hi, words)})

AllWordsCommon(words) == \A k \in 1..Len(words) : LemmaCommon(words[k])

\* The distinctive phrases with at least min_c occurrences in at least min_df documents.
Qualifying(corpus, min_c, min_df) ==
    {words \in PhraseWords(corpus, 2, 5) :
        /\ ~AllWordsCommon(words)
        /\ PhraseOccurrences(corpus, 2, 5, words) >= min_c
        /\ PhraseDocFreq(corpus, 2, 5, words) >= min_df}

EmittedPhrases(out) == {out[i].t : i \in 1..Len(out)}

\* The output holds the phrases of Q, up to the cap.
HoldsUpToCap(out, Q, cap) ==
    /\ EmittedPhrases(out) \subseteq {Join(words) : words \in Q}
    /\ Cardinality(Q) <= cap => EmittedPhrases(out) = {Join(words) : words \in Q}
    /\ Cardinality(Q) > cap => Len(out) = cap

\* C1: with two documents and total_docs = 2 a distinctive phrase is emitted
\* iff it occurs at least 5 times in 2 documents (5 in, 4 out); with one
\* document and total_docs = 1 iff it occurs at least 2 times (2 in, 1 out);
\* "emitted" up to the cap on the list.
C1_ThresholdsByDocumentCount ==
    "extract_learning_phrases" \in called =>
        /\ (Len(all_tokens) = 2 /\ total_docs = 2) =>
               HoldsUpToCap(learning_phrases, Qualifying(all_tokens, 5, 2), LearningCap)
        /\ (Len(all_tokens) = 1 /\ total_docs = 1) =>
               HoldsUpToCap(learning_phrases, Qualifying(all_tokens, 2, 1), LearningCap)

FolksFolks == <<W_folks, W_folks>>

\* C1 witness: two documents in which "folks folks" occurs exactly 5 times are
\* handed over with total_docs = 2 and the phrase is emitted with count 5.
C1_Witness ==
    /\ "extract_learning_phrases" \in called
    /\ Len(all_tokens) = 2 /\ total_docs = 2
    /\ PhraseOccurrences(all_tokens, 2, 5, FolksFolks) = 5
    /\ PhraseDocFreq(all_tokens, 2, 5, FolksFolks) = 2
    /\ \E i \in 1..Len(learning_phrases) :
           /\ learning_phrases[i].t = Join(FolksFolks)
           /\ learning_phrases[i].c = 5
           /\ learning_phrases[i].df = 2

FolksReckon == <<W_folks, W_reckon>>

\* Two documents, total_docs = 2, and "folks reckon" occurs once in each.
FolksReckonOncePerDocument ==
    /\ Len(all_tokens) = 2 /\ total_docs = 2
    /\ \A d \in 1..2 :
           Cardinality({w \in PhraseWindows(all_tokens, 2, 5, FolksReckon) : w[1] = d}) = 1

NoCommonOnlyPhrase(out) ==
    \A i \in 1..Len(out) :
        \E words \in PhraseWords(all_tokens, 2, 5) :
            out[i].t = Join(words) /\ ~AllWordsCommon(words)

\* C2 as stated: with "folks reckon" once in each of two documents the output
\* contains "folks reckon" with documentFrequency 2 and no phrase made of
\* common words only.
C2_AsStated ==
    ("extract_learning_phrases" \in called /\ FolksReckonOncePerDocument) =>
        /\ \E i \in 1..Len(learning_phrases) :
               /\ learning_phrases[i].t = Join(FolksReckon)
               /\ learning_phrases[i].df = 2
        /\ NoCommonOnlyPhrase(learning_phrases)

\* C2 amended: with "folks reckon" once in each of two documents the output
\* does not contain "folks reckon" (count 2 is below the multi-document
\* minimum 5); the output never contains a phrase made of common words only.
C2_FolksReckonBelowMinCount ==
    "extract_learning_phrases" \in called =>
        /\ FolksReckonOncePerDocument =>
               Join(FolksReckon) \notin EmittedPhrases(learning_phrases)
        /\ NoCommonOnlyPhrase(learning_phrases)

\* C2 witness: the scenario's corpus was mined.
C2_Witness ==
    /\ "extract_learning_phrases" \in called
    /\ FolksReckonOncePerDocument
    /\ \E d \in 1..2 : \E k \in 1..Len(all_tokens[d].tokens) :
           all_tokens[d].tokens[k] = T_go

---------------------------------------------------------------------------
(* extractors.py: extract_idiom_phrases                                    *)

\* Scaled down: the source keeps 500 idiom phrases (most_common(500)).
IdiomCap == 2

W_hang == <<"h","a","n","g">>
W_tight == <<"t","i","g","h","t">>

\* idiom_lexicon.py is not part of the sources at hand: a fixed set of
\* normalised phrases, tested for exact membership.
IDIOM_LEXICON ==
    { Join(<<W_folks, W_reckon>>), Join(<<W_reckon, W_god>>),
      Join(<<W_god, W_folks, W_reckon>>), Join(<<W_hang, W_tight>>) }

is_idiom(phrase) == phrase \in IDIOM_LEXICON

\* Counter.most_common(n): the n entries with the highest counts, entries of
\* equal count in the order first counted.
CountBefore(a, b) == a.c > b.c

CountOrder(lst) ==
    [i \in 1..Len(lst) |-> [j \in 1..Len(lst) |-> CountBefore(lst[i], lst[j])]]

MostCommon(counter, n) == Take(StableSort(counter, CountOrder(counter)), n)

\* Lines 157-169: as PhraseCount, for the n-grams that are idioms.
RECURSIVE IdiomCount(_, _)
IdiomCount(ngrams, acc) ==
    IF ngrams = <<>> THEN acc
    ELSE LET g == Head(ngrams)
             i == IndexOfKey(acc, g.phrase)
             surf == IF Strip(g.surface) # <<>> THEN {g.surface} ELSE {}
         IN  IF ~is_idiom(g.phrase) THEN IdiomCount(Tail(ngrams), acc)
             ELSE IF i = 0
             THEN IdiomCount(Tail(ngrams),
                      Append(acc, [t |-> g.phrase, c |-> 1, docs |-> {g.doc},
                                   surfaces |-> surf]))
             ELSE IdiomCount(Tail(ngrams),
                      [acc EXCEPT ![i].c = @ + 1,
                                  ![i].docs = @ \cup {g.doc},
                                  ![i].surfaces = @ \cup surf])

\* Mutant of extract_idiom_phrases: the idioms have to clear the thresholds of
\* the learning phrases.
extract_idiom_phrases_thresholded(corpus, n_docs) ==
    LET counted == IdiomCount(CorpusNgrams(corpus, 2, 7), <<>>)
        top == MostCommon(SelectSeq(counted,
                              LAMBDA e : /\ e.c >= MinCount(n_docs)
                                         /\ Cardinality(e.docs) >= MinDocFreq(n_docs)),
                          IdiomCap)
    IN  [i \in 1..Len(top) |->
            [t |-> top[i].t, c |-> top[i].c, df |-> Cardinality(top[i].docs),
             surfaces |-> Take(SetIter(top[i].surfaces), MaxSurfaces)]]

\* Lines 171-182.  total_docs is not read.
extract_idiom_phrases(corpus, n_docs) ==
    LET top == MostCommon(IdiomCount(CorpusNgrams(corpus, 2, 7), <<>>), IdiomCap)
    IN  [i \in 1..Len(top) |->
            [t |-> top[i].t, c |-> top[i].c, df |-> Cardinality(top[i].docs),
             surfaces |-> Take(SetIter(top[i].surfaces), MaxSurfaces)]]

---------------------------------------------------------------------------
(* extractors.py: aggregate_patterns                                       *)

\* Scaled down: the source ranks the 1000 most common patterns (most_common(1000)).
PatternCap == 2

\* Lines 234-246: pattern_count, pattern_docs, pattern_kind, pattern_surfaces
\* as entries [t, c, docs, kind, surfaces] in the order the keys were first seen.
RECURSIVE PatternCount(_, _, _)
PatternCount(patterns, doc_id, acc) ==
    IF patterns = <<>> THEN acc
    ELSE LET p == Head(patterns)
             i == IndexOfKey(acc, p.t)
             surface == Strip(p.surface)
             surf == IF surface # <<>> THEN {surface} ELSE {}
         IN  IF i = 0
             THEN PatternCount(Tail(patterns), doc_id,
                      Append(acc, [t |-> p.t, c |-> 1, docs |-> {doc_id},
                                   kind |-> p.kind, surfaces |-> surf]))
             ELSE PatternCount(Tail(patterns), doc_id,
                      [acc EXCEPT ![i].c = @ + 1,
                                  ![i].docs = @ \cup {doc_id},
                                  ![i].kind = p.kind,
                                  ![i].surfaces = @ \cup surf])

\* "for doc_id, patterns in all_patterns.items()"
RECURSIVE CorpusPatternCount(_, _)
CorpusPatternCount(found, acc) ==
    IF found = <<>> THEN acc
    ELSE CorpusPatternCount(Tail(found),
                            PatternCount(Head(found).patterns, Head(found).id, acc))

\* Lines 247-260.  An item without the optional key "surfaces" has surfaces = <<>>.
RECURSIVE PatternItems(_)
PatternItems(top) ==
    IF top = <<>> THEN <<>>
    ELSE LET e == Head(top)
         IN  IF head_lemma_is_common(e.t) THEN PatternItems(Tail(top))
             ELSE << [t |-> e.t, kind |-> e.kind, c |-> e.c,
                      df |-> Cardinality(e.docs),
                      surfaces |-> Take(SetIter(e.surfaces), MaxSurfaces)] >>
                  \o PatternItems(Tail(top))

aggregate_patterns(found) ==
    PatternItems(MostCommon(CorpusPatternCount(found, <<>>), PatternCap))

---------------------------------------------------------------------------
(* Aggregation harness: process_person's lines 123-131 applied to a corpus *)
(* of tokens or to per-document pattern lists.                             *)

\* Most tokens in a corpus handed to the aggregation step.
MaxExtractTokens == 5

\* Most pattern occurrences handed to the aggregation step.
MaxExtractPatterns == 4

ExtractTokens == {T_folks, T_reckon, T_god}

Pattern(t, kind, surface) == [t |-> t, kind |-> kind, surface |-> surface]

P_go_on       == Pattern(Join(<<W_go, W_on>>), "phrasal", Join(<<W_go, W_on>>))
P_reckon_on   == Pattern(Join(<<W_reckon, W_on>>), "phrasal", Join(<<W_reckon, W_on>>))
P_reckon_on_o == Pattern(Join(<<W_reckon, W_on>>), "VO", Join(<<W_reckon, W_folks, W_on>>))
P_god_folks   == Pattern(Join(<<W_god, W_folks>>), "nn", Join(<<W_god, W_folks>>))
P_reckon_god  == Pattern(Join(<<W_reckon, W_god>>), "VO", Join(<<W_reckon, W_god>>))

ExtractPatterns == {P_go_on, P_reckon_on, P_reckon_on_o, P_god_folks, P_reckon_god}

\* The pattern lists of one document d1, or of two documents d1 and d2, with
\* at most n pattern occurrences over the alphabet pats.
PatternCorpora(pats, n) ==
    LET lists == StringsUpTo(pats, n)
    IN  {<< [id |-> "d1", patterns |-> a] >> : a \in lists}
        \cup UNION {{<< [id |-> "d1", patterns |-> SubSeq(a, 1, k)],
                         [id |-> "d2", patterns |-> SubSeq(a, k + 1, Len(a))] >> :
                          k \in 0..Len(a)} : a \in lists}

\* Lines 124-126: flat_tokens.extend(t_list) for every document.
RECURSIVE Flatten(_)
Flatten(corpus) ==
    IF corpus = <<>> THEN <<>> ELSE Head(corpus).tokens \o Flatten(Tail(corpus))

InitExtract ==
    /\ pc = "harness"
    /\ called = {}
    /\ lemma = <<>>
    /\ classified = NotClassified
    /\ flat_tokens = <<>>
    /\ \/ /\ all_tokens \in Corpora(ExtractTokens, MaxExtractTokens)
          /\ all_patterns = <<>>
       \/ /\ all_tokens = <<>>
          /\ all_patterns \in PatternCorpora(ExtractPatterns, MaxExtractPatterns)
    /\ total_docs \in {n \in 1..2 : n >= Len(all_tokens) /\ n >= Len(all_patterns)}
    /\ hash_seed = 0
    /\ IdleResults /\ IdleStore

\* Lines 123-131.
CallAggregation ==
    /\ pc = "harness" /\ "aggregation" \notin called
    /\ called' = called \cup {"aggregation"}
    /\ flat_tokens' = Flatten(all_tokens)
    /\ vocabulary' = extract_vocabulary(Flatten(all_tokens))
    /\ learning_phrases' = extract_learning_phrases(all_tokens, total_docs)
    /\ idiom_phrases' = extract_idiom_phrases(all_tokens, total_docs)
    /\ pattern_phrases' = aggregate_patterns(all_patterns)
    /\ UNCHANGED << pc, lemma, classified, all_tokens, all_patterns, total_docs,
                    hash_seed, first_run, ngram_n, ngram_out, docs, session,
                    docs_snapshot, idx >>

NextExtract == CallAggregation

SpecExtract == InitExtract /\ [][NextExtract]_vars

---------------------------------------------------------------------------
(* Claims about the aggregated lists.                                      *)

\* The first whitespace-separated word of s (<<>> when s is blank).
FirstWord(s) ==
    LET inner == {k \in 1..Len(s) : s[k] \notin Whitespace}
    IN  IF inner = {} THEN <<>>
        ELSE LET lo == CHOOSE k \in inner : \A m \in inner : k <= m
                 ends == {k \in lo..Len(s) : k = Len(s) \/ s[k + 1] \in Whitespace}
                 hi == CHOOSE k \in ends : \A m \in ends : k <= m
             IN  SubSeq(s, lo, hi)

\* The occurrences <<document index, position>> of the key t in the pattern lists.
PatternOccurrences(found, t) ==
    UNION {{<<d, k>> : k \in {j \in 1..Len(found[d].patterns) : found[d].patterns[j].t = t}} :
           d \in 1..Len(found)}

SuppliedPatternKeys(found) ==
    UNION {{found[d].patterns[k].t : k \in 1..Len(found[d].patterns)} : d \in 1..Len(found)}

\* C4: no entry of aggregate_patterns' output has a phraseKey whose first
\* whitespace-separated word is in the common set.
C4_NoCommonHeadInPatterns ==
    "aggregation" \in called =>
        \A i \in 1..Len(pattern_phrases) :
            FirstWord(pattern_phrases[i].t) \notin COMMON_LEMMAS

\* C4 witness: a key with a common head was supplied more often than any
\* other key and is absent from the output, which holds another key.
C4_Witness ==
    /\ "aggregation" \in called
    /\ Cardinality(PatternOccurrences(all_patterns, P_go_on.t)) = 3
    /\ Len(pattern_phrases) = 1
    /\ pattern_phrases[1].t = P_god_folks.t
    /\ pattern_phrases[1].c = 1

IdiomWordsInCorpus(corpus) ==
    {words \in PhraseWords(corpus, 2, 7) : Join(words) \in IDIOM_LEXICON}

\* C10: every list respects its cap, every entry has a count of at least 1
\* and, where it has one, a document frequency of at least 1.
C10_CapsAndPositiveCounts ==
    "aggregation" \in called =>
        /\ Len(vocabulary) <= VocabCap
        /\ Len(learning_phrases) <= LearningCap
        /\ Len(idiom_phrases) <= IdiomCap
        /\ Len(pattern_phrases) <= PatternCap
        /\ \A i \in 1..Len(vocabulary) : vocabulary[i].c >= 1
        /\ \A i \in 1..Len(learning_phrases) :
               learning_phrases[i].c >= 1 /\ learning_phrases[i].df >= 1
        /\ \A i \in 1..Len(idiom_phrases) :
               idiom_phrases[i].c >= 1 /\ idiom_phrases[i].df >= 1
        /\ \A i \in 1..Len(pattern_phrases) :
               pattern_phrases[i].c >= 1 /\ pattern_phrases[i].df >= 1

\* C10 witness: the corpus holds more qualifying lemmas than the vocabulary
\* cap and more idioms than the idiom cap, and both lists are full.
C10_Witness ==
    /\ "aggregation" \in called
    /\ Cardinality(QualifyingLemmas(flat_tokens)) > VocabCap
    /\ Len(vocabulary) = VocabCap
    /\ Cardinality(IdiomWordsInCorpus(all_tokens)) > IdiomCap
    /\ Len(idiom_phrases) = IdiomCap

\* The other two cuts are reachable too.
C10_LearningCut ==
    /\ "aggregation" \in called
    /\ Len(all_tokens) = total_docs
    /\ Cardinality(Qualifying(all_tokens, MinCount(total_docs), MinDocFreq(total_docs)))
           > LearningCap
    /\ Len(learning_phrases) = LearningCap

C10_PatternCut ==
    /\ "aggregation" \in called
    /\ Cardinality({t \in SuppliedPatternKeys(all_patterns) :
                       FirstWord(t) \notin COMMON_LEMMAS}) > PatternCap
    /\ Len(pattern_phrases) = PatternCap

---------------------------------------------------------------------------
(* Rerun harness: extract_learning_phrases applied to the same corpus by   *)
(* two processes, each with its own hash seed.                             *)

\* Most tokens in a corpus of the rerun harness.
MaxRerunTokens == 5

\* The hash seeds told apart: they order a set of two strings both ways.
HashSeeds == {0, 1}

RerunTokens == {T_folks, T_Folks, T_go}

InitRerun ==
    /\ pc = "harness"
    /\ called = {}
    /\ lemma = <<>>
    /\ classified = NotClassified
    /\ flat_tokens = <<>>
    /\ all_tokens \in Corpora(RerunTokens, MaxRerunTokens)
    /\ all_patterns = <<>>
    /\ total_docs = Len(all_tokens)
    /\ hash_seed \in HashSeeds
    /\ IdleResults /\ IdleStore

\* A new interpreter is started for the second run: the result of the first
\* run is kept with its hash seed for comparison, the hash seed is drawn
\* again.
Restart ==
    /\ pc = "harness"
    /\ called = {"extract_learning_phrases"}
    /\ called' = {"restarted"}
    /\ first_run' = [out |-> learning_phrases, seed |-> hash_seed]
    /\ learning_phrases' = <<>>
    /\ hash_seed' \in HashSeeds
    /\ UNCHANGED << pc, lemma, classified, flat_tokens, all_tokens, all_patterns,
                    total_docs, vocabulary, idiom_phrases, pattern_phrases,
                    ngram_n, ngram_out, docs, session, docs_snapshot, idx >>

NextRerun ==
    \/ CallExtractLearningPhrases
    \/ Restart

SpecRerun == InitRerun /\ [][NextRerun]_vars

\* The fields of the learning phrases that C9 names, in output order.
RankedFields(out) ==
    [i \in 1..Len(out) |->
        [t |-> out[i].t, c |-> out[i].c, df |-> out[i].df,
         pmi |-> out[i].pmi, s |-> out[i].s]]

BothRunsDone == called = {"restarted", "extract_learning_phrases"}

\* C9: two runs of extract_learning_phrases on the same corpus, in the same
\* document order and with the same total_docs, emit the same phrases with
\* the same counts, document frequencies, PMI and score, in the same order,
\* whatever the hash seeds of the two runs; under the same hash seed the two
\* outputs are equal in every field.
C9_RerunSameRanking ==
    BothRunsDone =>
        /\ RankedFields(first_run.out) = RankedFields(learning_phrases)
        /\ first_run.seed = hash_seed => first_run.out = learning_phrases

\* C9 witness: the two runs had different hash seeds and list the surface
\* forms in different orders, and more phrases qualified than the cap lets
\* through, so that the order decides which phrases are emitted.
C9_Witness ==
    /\ BothRunsDone
    /\ Len(all_tokens) = 1
    /\ Cardinality(Qualifying(all_tokens, 2, 1)) > LearningCap
    /\ Len(learning_phrases) = LearningCap
    /\ first_run.seed # hash_seed
    /\ first_run.out # learning_phrases

---------------------------------------------------------------------------
(* process_person: the run over the queued documents of one person.        *)

\* Most documents of the person.
MaxDocs == 2

DocIds == <<"d1", "d2", "d3", "d4">>

GsScheme == <<"g","s",":","/","/">>

\* The storage paths told apart: none, another scheme, a bucket without an
\* object path, a bucket with an object path.
Path_none   == <<>>
Path_s3     == <<"s","3",":","/","/","b","/","k">>
Path_bucket == <<"g","s",":","/","/","b">>
Path_object == <<"g","s",":","/","/","b","/","k">>

StartsWith(s, prefix) ==
    Len(s) >= Len(prefix) /\ SubSeq(s, 1, Len(prefix)) = prefix

\* str.replace(old, ""): every occurrence of old is removed, left to right.
RECURSIVE RemoveAll(_, _)
RemoveAll(s, old) ==
    IF s = <<>> THEN <<>>
    ELSE IF StartsWith(s, old) THEN RemoveAll(SubSeq(s, Len(old) + 1, Len(s)), old)
    ELSE <<Head(s)>> \o RemoveAll(Tail(s), old)

\* parse_gs_url: raises ValueError on an empty path or another scheme, and
\* IndexError on parts[1] when nothing follows the bucket.
parse_gs_url(gs_path) ==
    IF gs_path = <<>> \/ ~StartsWith(gs_path, GsScheme)
    THEN [raised |-> TRUE, bucket |-> <<>>, path |-> <<>>]
    ELSE LET rest == RemoveAll(gs_path, GsScheme)
             slashes == {k \in 1..Len(rest) : rest[k] = "/"}
         IN  IF slashes = {}
             THEN [raised |-> TRUE, bucket |-> rest, path |-> <<>>]
             ELSE LET k == CHOOSE i \in slashes : \A j \in slashes : i <= j
                  IN  [raised |-> FALSE, bucket |-> SubSeq(rest, 1, k - 1),
                       path |-> SubSeq(rest, k + 1, Len(rest))]

\* What the storage object of a document gives: the download raises, or the
\* cleaned text is blank, or the annotator returns tokens and the pattern
\* extractor returns patterns.
Blob(name) ==
    CASE name = "missing" ->
           [found |-> FALSE, clean_blank |-> TRUE, tokens |-> <<>>, patterns |-> <<>>]
      [] name = "applause" ->
           [found |-> TRUE, clean_blank |-> TRUE, tokens |-> <<>>, patterns |-> <<>>]
      [] name = "folks" ->
           [found |-> TRUE, clean_blank |-> FALSE,
            tokens |-> <<T_folks, T_folks, T_folks>>, patterns |-> <<>>]
      [] name = "reckon" ->
           [found |-> TRUE, clean_blank |-> FALSE,
            tokens |-> <<T_reckon, T_god>>, patterns |-> <<P_reckon_god>>]

BlobNames == {"missing", "applause", "folks", "reckon"}

DocShapes ==
    [status : {"queued", "done"}, storagePath : {Path_none, Path_s3, Path_bucket},
     blob : {"missing"}]
    \cup [status : {"queued", "done"}, storagePath : {Path_object}, blob : BlobNames]

WithIds(shapes) ==
    [k \in 1..Len(shapes) |->
        [id |-> DocIds[k], status |-> shapes[k].status,
         storagePath |-> shapes[k].storagePath, blob |-> shapes[k].blob]]

IdleRun ==
    /\ called = {}
    /\ lemma = <<>>
    /\ classified = NotClassified
    /\ docs_snapshot = <<>>
    /\ idx = 0
    /\ IdleCorpus /\ IdleResults

Init ==
    /\ pc = "idle"
    /\ \E shapes \in StringsUpTo(DocShapes, MaxDocs) : docs = WithIds(shapes)
    /\ session = NoSession
    /\ hash_seed = 0
    /\ IdleRun

\* Line 40: the documents whose status is queued, in collection order.
Queued(ds) == SelectSeq(ds, LAMBDA d : d.status = "queued")

\* Mutant of MarkDone: the document keeps its status.
MarkDone_not_marked(ds, id) == ds

\* Lines 110-113.
MarkDone(ds, id) ==
    [k \in 1..Len(ds) |-> IF ds[k].id = id THEN [ds[k] EXCEPT !.status = "done"] ELSE ds[k]]

\* Mutant of MarkFailed: the except handler leaves the session as it is.
MarkFailed_not_marked(s) == s

\* Lines 160-164: the except handler's update of the session document.
MarkFailed(s) ==
    [s EXCEPT !.progress.status = "failed", !.progress.error = TRUE]

\* Line 115: round((idx / total_docs) * 100, 1), in tenths.
ProgressPercent(i, n) == RoundDiv(i * 1000, n)

LocalsUnchanged ==
    UNCHANGED << called, lemma, classified, hash_seed, first_run, ngram_n, ngram_out >>

ResultsUnchanged ==
    UNCHANGED << flat_tokens, vocabulary, learning_phrases, idiom_phrases,
                 pattern_phrases >>

\* Lines 33-34: no session id, ValueError before anything is read or written.
RejectNoSession ==
    /\ pc = "idle"
    /\ pc' = "rejected"
    /\ UNCHANGED << docs, session, docs_snapshot, idx, all_tokens, all_patterns,
                    total_docs >>
    /\ ResultsUnchanged /\ LocalsUnchanged

\* Lines 36-67: no queued document, the session is set to done and the run
\* returns.
StartNoDocs ==
    /\ pc = "idle"
    /\ Queued(docs) = <<>>
    /\ docs_snapshot' = <<>>
    /\ total_docs' = 0
    /\ session' = [session EXCEPT
                      !.exists = TRUE,
                      !.status = "done",
                      !.progress.processedDocs = 0,
                      !.progress.totalDocs = 0,
                      !.progress.percent = 1000,
                      !.progress.status = "done"]
    /\ pc' = "done"
    /\ UNCHANGED << docs, idx, all_tokens, all_patterns >>
    /\ ResultsUnchanged /\ LocalsUnchanged

\* Lines 36-83: the queued documents are read, the progress is announced.
Start ==
    /\ pc = "idle"
    /\ Queued(docs) # <<>>
    /\ docs_snapshot' = Queued(docs)
    /\ total_docs' = Len(Queued(docs))
    /\ session' = [session EXCEPT
                      !.exists = TRUE,
                      !.progress.processedDocs = 0,
                      !.progress.totalDocs = Len(Queued(docs)),
                      !.progress.percent = 0,
                      !.progress.status = "processing"]
    /\ all_tokens' = <<>>
    /\ all_patterns' = <<>>
    /\ pc' = "loop"
    /\ UNCHANGED << docs, idx >>
    /\ ResultsUnchanged /\ LocalsUnchanged

\* The document the loop visits next.
InLoop == pc = "loop" /\ idx < Len(docs_snapshot)

doc_snap == docs_snapshot[idx + 1]

\* Lines 86-91: a document without storagePath is passed over.
LoopSkipNoPath ==
    /\ InLoop
    /\ doc_snap.storagePath = <<>>
    /\ idx' = idx + 1
    /\ UNCHANGED << pc, docs, session, docs_snapshot, all_tokens, all_patterns,
                    total_docs >>
    /\ ResultsUnchanged /\ LocalsUnchanged

\* Lines 93 and 158-165: parse_gs_url raises, the handler marks the run failed.
LoopRaiseInvalidPath ==
    /\ InLoop
    /\ doc_snap.storagePath # <<>>
    /\ parse_gs_url(doc_snap.storagePath).raised
    /\ idx' = idx + 1
    /\ session' = MarkFailed(session)
    /\ pc' = "failed"
    /\ UNCHANGED << docs, docs_snapshot, all_tokens, all_patterns, total_docs >>
    /\ ResultsUnchanged /\ LocalsUnchanged

\* Lines 94-96 and 158-165: the download raises.
LoopRaiseDownload ==
    /\ InLoop
    /\ doc_snap.storagePath # <<>>
    /\ ~parse_gs_url(doc_snap.storagePath).raised
    /\ ~Blob(doc_snap.blob).found
    /\ idx' = idx + 1
    /\ session' = MarkFailed(session)
    /\ pc' = "failed"
    /\ UNCHANGED << docs, docs_snapshot, all_tokens, all_patterns, total_docs >>
    /\ ResultsUnchanged /\ LocalsUnchanged

\* Lines 98-100: the cleaned text is blank, the document is passed over.
LoopSkipBlank ==
    /\ InLoop
    /\ doc_snap.storagePath # <<>>
    /\ ~parse_gs_url(doc_snap.storagePath).raised
    /\ Blob(doc_snap.blob).found
    /\ Blob(doc_snap.blob).clean_blank
    /\ idx' = idx + 1
    /\ UNCHANGED << pc, docs, session, docs_snapshot, all_tokens, all_patterns,
                    total_docs >>
    /\ ResultsUnchanged /\ LocalsUnchanged

\* Lines 102-121: tokens and patterns are kept, the document is marked done,
\* the progress is updated.
LoopProcess ==
    /\ InLoop
    /\ doc_snap.storagePath # <<>>
    /\ ~parse_gs_url(doc_snap.storagePath).raised
    /\ Blob(doc_snap.blob).found
    /\ ~Blob(doc_snap.blob).clean_blank
    /\ idx' = idx + 1
    /\ all_tokens' = Append(all_tokens,
                            [id |-> doc_snap.id, tokens |-> Blob(doc_snap.blob).tokens])
    /\ all_patterns' = Append(all_patterns,
                              [id |-> doc_snap.id, patterns |-> Blob(doc_snap.blob).patterns])
    /\ docs' = MarkDone(docs, doc_snap.id)
    /\ session' = [session EXCEPT
                      !.progress.processedDocs = idx + 1,
                      !.progress.percent = ProgressPercent(idx + 1, total_docs)]
    /\ UNCHANGED << pc, docs_snapshot, total_docs >>
    /\ ResultsUnchanged /\ LocalsUnchanged

\* Lines 102-113 and 158-165: tokens and patterns are kept, then the update
\* of the document raises (the document is gone from the store).
LoopRaiseMarkDone ==
    /\ InLoop
    /\ doc_snap.storagePath # <<>>
    /\ ~parse_gs_url(doc_snap.storagePath).raised
    /\ Blob(doc_snap.blob).found
    /\ ~Blob(doc_snap.blob).clean_blank
    /\ idx' = idx + 1
    /\ all_tokens' = Append(all_tokens,
                            [id |-> doc_snap.id, tokens |-> Blob(doc_snap.blob).tokens])
    /\ all_patterns' = Append(all_patterns,
                              [id |-> doc_snap.id, patterns |-> Blob(doc_snap.blob).patterns])
    /\ session' = MarkFailed(session)
    /\ pc' = "failed"
    /\ UNCHANGED << docs, docs_snapshot, total_docs >>
    /\ ResultsUnchanged /\ LocalsUnchanged

\* Lines 123-131.
Aggregated ==
    /\ flat_tokens' = Flatten(all_tokens)
    /\ vocabulary' = extract_vocabulary(Flatten(all_tokens))
    /\ learning_phrases' = extract_learning_phrases(all_tokens, total_docs)
    /\ idiom_phrases' = extract_idiom_phrases(all_tokens, total_docs)
    /\ pattern_phrases' = aggregate_patterns(all_patterns)

\* Lines 123-156: aggregation and the write of the results.
AggregateAndWrite ==
    /\ pc = "loop" /\ idx = Len(docs_snapshot)
    /\ Aggregated
    /\ session' = [session EXCEPT
                      !.has_results = TRUE,
                      !.vocabulary = Take(vocabulary', VocabCap),
                      !.learningPhrases = Take(learning_phrases', LearningCap),
                      !.signaturePhrases = Take(idiom_phrases', IdiomCap),
                      !.patternPhrases = Take(pattern_phrases', PatternCap),
                      !.corpusStats = [docCount |-> total_docs,
                                       tokenCount |-> Len(flat_tokens')],
                      !.progress.processedDocs = total_docs,
                      !.progress.totalDocs = total_docs,
                      !.progress.percent = 1000,
                      !.progress.status = "done"]
    /\ pc' = "done"
    /\ UNCHANGED << docs, docs_snapshot, idx, all_tokens, all_patterns, total_docs >>
    /\ LocalsUnchanged

\* Lines 123-133 and 158-165: the write of the results raises.
WriteRaises ==
    /\ pc = "loop" /\ idx = Len(docs_snapshot)
    /\ Aggregated
    /\ session' = MarkFailed(session)
    /\ pc' = "failed"
    /\ UNCHANGED << docs, docs_snapshot, idx, all_tokens, all_patterns, total_docs >>
    /\ LocalsUnchanged

\* process_person is called again for the same person.
NextRun ==
    /\ pc \in {"done", "failed", "rejected"}
    /\ pc' = "idle"
    /\ docs_snapshot' = <<>>
    /\ idx' = 0
    /\ flat_tokens' = <<>>
    /\ all_tokens' = <<>>
    /\ all_patterns' = <<>>
    /\ total_docs' = 0
    /\ vocabulary' = <<>>
    /\ learning_phrases' = <<>>
    /\ idiom_phrases' = <<>>
    /\ pattern_phrases' = <<>>
    /\ UNCHANGED << docs, session >>
    /\ LocalsUnchanged

Next ==
    \/ RejectNoSession
    \/ StartNoDocs
    \/ Start
    \/ LoopSkipNoPath
    \/ LoopRaiseInvalidPath
    \/ LoopRaiseDownload
    \/ LoopSkipBlank
    \/ LoopProcess
    \/ LoopRaiseMarkDone
    \/ AggregateAndWrite
    \/ WriteRaises
    \/ NextRun

Spec == Init /\ [][Next]_vars

\* The steps of a run that has read its queued documents: the loop and what
\* follows it run in one thread, so a run that can step does step.
RunStep ==
    \/ LoopSkipNoPath
    \/ LoopRaiseInvalidPath
    \/ LoopRaiseDownload
    \/ LoopSkipBlank
    \/ LoopProcess
    \/ LoopRaiseMarkDone
    \/ AggregateAndWrite
    \/ WriteRaises

\* What every step of RunStep does to pc and idx, and what no other step of
\* Next does: the loop moves on to the next document, or the run ends.
RunAdvances ==
    /\ pc = "loop"
    /\ pc' \in {"loop", "done", "failed"}
    /\ idx' \in {idx, idx + 1}

\* Weak fairness of the run's steps, stated on pc and idx alone: under
\* [][Next]_vars a step changes <<pc, idx>> from pc = "loop" iff it is a
\* RunStep, and RunStep is enabled iff pc = "loop".
LiveSpec == Init /\ [][Next]_vars /\ WF_<<pc, idx>>(RunAdvances)

---------------------------------------------------------------------------
(* Claims about process_person.                                            *)

\* The run wrote its results, and the corpus has fewer documents than were
\* announced.
DoneWithSkippedDocs ==
    /\ pc = "done"
    /\ session.has_results
    /\ Len(all_tokens) < total_docs

\* C3, as claimed: when queued documents were skipped, the learning phrases
\* are those that clear the thresholds of the number of documents supplied to
\* the extractor (min count 2 and min document frequency 1 for one document,
\* 5 and 2 otherwise), up to the cap.
C3_AsStated ==
    DoneWithSkippedDocs =>
        HoldsUpToCap(learning_phrases,
                     Qualifying(all_tokens,
                                IF Len(all_tokens) = 1 THEN 2 ELSE 5,
                                IF Len(all_tokens) = 1 THEN 1 ELSE 2),
                     LearningCap)

---------------------------------------------------------------------------
(* Claims about aggregate_patterns' ranking and merging.                   *)

NonCommonHeadKeys(found) ==
    {t \in SuppliedPatternKeys(found) : FirstWord(t) \notin COMMON_LEMMAS}

EmittedPatternKeys(out) == {out[i].t : i \in 1..Len(out)}

\* C11, as claimed: keys with a common head are dropped before the cut, so
\* with at least cap-many distinct keys with a non-common head supplied the
\* output has exactly cap-many entries, and no omitted key with a non-common
\* head was supplied more often than an emitted one.
C11_AsStated ==
    "aggregation" \in called =>
        /\ Cardinality(NonCommonHeadKeys(all_patterns)) >= PatternCap
               => Len(pattern_phrases) = PatternCap
        /\ \A t \in NonCommonHeadKeys(all_patterns) \ EmittedPatternKeys(pattern_phrases) :
               \A i \in 1..Len(pattern_phrases) :
                   Cardinality(PatternOccurrences(all_patterns, t)) <= pattern_phrases[i].c

\* The first occurrence <<document index, position>> of the key t.
FirstPatternOccurrence(found, t) ==
    CHOOSE o \in PatternOccurrences(found, t) :
        \A q \in PatternOccurrences(found, t) :
            o[1] < q[1] \/ (o[1] = q[1] /\ o[2] <= q[2])

PatternKinds(found, t) ==
    {found[o[1]].patterns[o[2]].kind : o \in PatternOccurrences(found, t)}

\* C12, as claimed: every emitted entry carries the kind of the first
\* occurrence of its key, the number of its occurrences as count and the
\* number of distinct documents holding it as document frequency.
C12_AsStated ==
    "aggregation" \in called =>
        \A i \in 1..Len(pattern_phrases) :
            LET e == pattern_phrases[i]
                first == FirstPatternOccurrence(all_patterns, e.t)
            IN  /\ e.kind = all_patterns[first[1]].patterns[first[2]].kind
                /\ e.c = Cardinality(PatternOccurrences(all_patterns, e.t))
                /\ e.df = Cardinality({o[1] : o \in PatternOccurrences(all_patterns, e.t)})

---------------------------------------------------------------------------
(* N-gram harness: one document and an n, and generate_ngrams applied.     *)

\* Most tokens in the document handed to generate_ngrams.
MaxNgramTokens == 5

\* A content word whose text differs from its norm, a stop-word without
\* content part-of-speech, a stop-word with one, a word that is neither.
NgramTokens == {T_Folks, T_on, T_hereby, T_ouch}

InitNgrams ==
    /\ pc = "harness"
    /\ called = {}
    /\ lemma = <<>>
    /\ classified = NotClassified
    /\ flat_tokens = <<>>
    /\ \E toks \in StringsUpTo(NgramTokens, MaxNgramTokens) :
           all_tokens = << [id |-> "d1", tokens |-> toks] >>
    /\ all_patterns = <<>>
    /\ total_docs = 1
    /\ hash_seed = 0
    /\ vocabulary = <<>>
    /\ learning_phrases = <<>>
    /\ idiom_phrases = <<>>
    /\ pattern_phrases = <<>>
    /\ first_run = <<>>
    /\ ngram_n \in 1..(MaxNgramTokens + 1)
    /\ ngram_out = <<>>
    /\ IdleStore

CallGenerateNgrams ==
    /\ pc = "harness" /\ "generate_ngrams" \notin called
    /\ called' = called \cup {"generate_ngrams"}
    /\ ngram_out' = generate_ngrams(all_tokens[1].tokens, ngram_n, all_tokens[1].id)
    /\ UNCHANGED << pc, lemma, classified, flat_tokens, all_tokens, all_patterns,
                    total_docs, vocabulary, learning_phrases, idiom_phrases,
                    pattern_phrases, hash_seed, first_run, ngram_n, docs, session,
                    docs_snapshot, idx >>

NextNgrams == CallGenerateNgrams

SpecNgrams == InitNgrams /\ [][NextNgrams]_vars

---------------------------------------------------------------------------
(* Claims about generate_ngrams.                                           *)

StopWordsIn(tokens, i, n) ==
    Cardinality({k \in i..(i + n - 1) : tokens[k].is_stop})

\* The windows of length n, by their first position, whose stop-word fraction
\* is at most 0.6 (6/10) and which hold a token with a content part-of-speech.
SurvivingWindows(tokens, n) ==
    {i \in 1..(Len(tokens) - n + 1) :
        /\ StopWordsIn(tokens, i, n) * 10 <= n * 6
        /\ \E k \in i..(i + n - 1) : tokens[k].pos \in {"NOUN", "VERB", "ADJ", "ADV"}}

\* The k-th smallest element of a set of numbers.
NthSmallest(S, k) == CHOOSE i \in S : Cardinality({j \in S : j < i}) = k - 1

\* C13: generate_ngrams(tokens, n) emits one n-gram per surviving window, in
\* window order, with the norms joined as phrase and the texts joined as
\* surface, and nothing else (nothing at all when Len(tokens) < n).
C13_NgramPerSurvivingWindow ==
    "generate_ngrams" \in called =>
        LET tokens == all_tokens[1].tokens
            S == SurvivingWindows(tokens, ngram_n)
        IN  /\ Len(ngram_out) = Cardinality(S)
            /\ \A k \in 1..Len(ngram_out) :
                   LET i == NthSmallest(S, k)
                   IN  /\ ngram_out[k].phrase =
                              Join([j \in 1..ngram_n |-> tokens[i + j - 1].norm])
                       /\ ngram_out[k].surface =
                              Join([j \in 1..ngram_n |-> tokens[i + j - 1].text])
                       /\ ngram_out[k].doc = all_tokens[1].id
            /\ Len(tokens) < ngram_n => ngram_out = <<>>

\* C13 witness: a window of 5 tokens with exactly 3 stop-words (fraction 0.6)
\* and a content word is emitted.
C13_Witness ==
    /\ "generate_ngrams" \in called
    /\ ngram_n = 5
    /\ Len(all_tokens[1].tokens) = 5
    /\ StopWordsIn(all_tokens[1].tokens, 1, 5) = 3
    /\ Len(ngram_out) = 1

\* The windows are dropped for each of the two reasons and kept, in one document.
C13_MixedWindows ==
    /\ "generate_ngrams" \in called
    /\ ngram_n = 2
    /\ Len(ngram_out) = 2
    /\ \E i \in 1..(Len(all_tokens[1].tokens) - 1) :
           StopWordsIn(all_tokens[1].tokens, i, 2) = 2
    /\ \E i \in 1..(Len(all_tokens[1].tokens) - 1) :
           /\ StopWordsIn(all_tokens[1].tokens, i, 2) = 0
           /\ \A k \in i..(i + 1) : all_tokens[1].tokens[k].pos \notin CONTENT_POS

---------------------------------------------------------------------------
(* Claims about extract_idiom_phrases.                                     *)

IdiomOccurrences(corpus, t) ==
    LET words == CHOOSE w \in IdiomWordsInCorpus(corpus) : Join(w) = t
    IN  PhraseOccurrences(corpus, 2, 7, words)

IdiomDocFreq(corpus, t) ==
    LET words == CHOOSE w \in IdiomWordsInCorpus(corpus) : Join(w) = t
    IN  PhraseDocFreq(corpus, 2, 7, words)

IdiomKeysInCorpus(corpus) == {Join(w) : w \in IdiomWordsInCorpus(corpus)}

MinOf(a, b) == IF a < b THEN a ELSE b

\* C14: extract_idiom_phrases emits only members of the idiom lexicon, each
\* once, with the number of its surviving windows (n = 2..7) as count and the
\* number of documents holding such a window as document frequency, by count
\* descending; whatever total_docs is, every idiom of the corpus is emitted
\* up to the cap, and no omitted idiom has a higher count than an emitted one.
C14_IdiomsCountedAndRanked ==
    "aggregation" \in called =>
        LET keys == IdiomKeysInCorpus(all_tokens)
            emitted == {idiom_phrases[i].t : i \in 1..Len(idiom_phrases)}
        IN  /\ emitted \subseteq IDIOM_LEXICON \cap keys
            /\ Cardinality(emitted) = Len(idiom_phrases)
            /\ Len(idiom_phrases) = MinOf(Cardinality(keys), IdiomCap)
            /\ \A i \in 1..Len(idiom_phrases) :
                   /\ idiom_phrases[i].c = IdiomOccurrences(all_tokens, idiom_phrases[i].t)
                   /\ idiom_phrases[i].df = IdiomDocFreq(all_tokens, idiom_phrases[i].t)
                   /\ \A j \in (i + 1)..Len(idiom_phrases) :
                          idiom_phrases[i].c >= idiom_phrases[j].c
                   /\ \A t \in keys \ emitted :
                          IdiomOccurrences(all_tokens, t) <= idiom_phrases[i].c

\* C14 witness: with total_docs = 2 the corpus holds more idioms than the
\* cap; an idiom counted twice is followed by one counted once in one
\* document, which would clear no multi-document threshold.
C14_Witness ==
    /\ "aggregation" \in called
    /\ total_docs = 2
    /\ Cardinality(IdiomKeysInCorpus(all_tokens)) > IdiomCap
    /\ Len(idiom_phrases) = IdiomCap
    /\ idiom_phrases[1].c = 2
    /\ idiom_phrases[2].c = 1
    /\ idiom_phrases[2].df = 1

---------------------------------------------------------------------------
(* Claims about the progress and the documents of a run.                   *)

RunEnded == pc \in {"done", "failed"}

ResultLists(s) ==
    << s.has_results, s.vocabulary, s.learningPhrases, s.signaturePhrases,
       s.patternPhrases, s.corpusStats >>

\* The progress status tells how the run stands: "processing" while it visits
\* the documents, "failed" when a step raised, "done" with percent 100 when
\* it returned.
StatusFollowsRun ==
    /\ pc = "loop" => session.progress.status = "processing"
    /\ pc = "failed" <=> (RunEnded /\ session.progress.status = "failed")
    /\ pc = "done" =>
           /\ session.progress.status = "done"
           /\ session.progress.percent = 1000

\* The result lists change only in the step that ends the run with "done",
\* taken after the loop has visited every document of the snapshot.
ResultsWrittenLast ==
    ResultLists(session') # ResultLists(session) =>
        /\ pc = "loop" /\ idx = Len(docs_snapshot)
        /\ pc' = "done"

StoredDoc(id) == docs[CHOOSE k \in 1..Len(docs) : docs[k].id = id]

CorpusIds(corpus) == {corpus[k].id : k \in 1..Len(corpus)}

\* While the run visits the documents, every document whose tokens it holds
\* is done in the store.
ExtractedAreDone ==
    pc = "loop" => \A id \in CorpusIds(all_tokens) : StoredDoc(id).status = "done"

\* A document turns from queued to done only in a step of the loop that adds
\* its tokens to the corpus and leaves the result lists alone, and never
\* turns back.
MarkedDoneWhenExtracted ==
    \A k \in 1..Len(docs) :
        /\ (docs[k].status = "queued" /\ docs'[k].status = "done") =>
               /\ pc = "loop" /\ idx < Len(docs_snapshot)
               /\ all_tokens' = Append(all_tokens, all_tokens'[Len(all_tokens')])
               /\ all_tokens'[Len(all_tokens')].id = docs[k].id
               /\ ResultLists(session') = ResultLists(session)
        /\ docs[k].status = "done" => docs'[k].status = "done"

\* A run reads only queued documents, and a document joins the corpus only
\* while it is still queued: what an earlier run marked done stays out.
CorpusTakesQueuedOnly ==
    /\ (pc = "idle" /\ pc' \in {"loop", "done"}) =>
           \A k \in 1..Len(docs) :
               docs[k].status = "done" => docs[k].id \notin CorpusIds(docs_snapshot')
    /\ \A id \in CorpusIds(all_tokens') \ CorpusIds(all_tokens) :
           StoredDoc(id).status = "queued"

\* A run that finds no queued document sets the session status to "done" and
\* writes no result list.
NoQueuedEndsDone ==
    (pc = "idle" /\ Queued(docs) = <<>> /\ pc' \notin {"idle", "rejected"}) =>
        /\ pc' = "done"
        /\ session'.status = "done"
        /\ session'.progress.status = "done"
        /\ ResultLists(session') = ResultLists(session)

\* C16: a document is marked done in the loop step that extracts its tokens,
\* before aggregation and before the results are written; a later run does
\* not read it as queued and keeps it out of its corpus; a run that finds
\* nothing queued sets the session status to "done" without a result list.
C16_DoneDocumentsAreNotReprocessed ==
    /\ []ExtractedAreDone
    /\ [][MarkedDoneWhenExtracted /\ CorpusTakesQueuedOnly /\ NoQueuedEndsDone]_vars

\* C16 witness: a run failed after it had marked every document done; the
\* following run found nothing queued and set the session status to "done",
\* and no result list was ever written.
C16_Witness ==
    /\ pc = "done"
    /\ total_docs = 0
    /\ docs # <<>>
    /\ \A k \in 1..Len(docs) : docs[k].status = "done"
    /\ session.progress.error
    /\ session.status = "done"
    /\ ~session.has_results

=============================================================================
